---- MODULE Spec2Model ----
(***************************************************************************)
(* A model of github.com/bodgit/wud: the wux sector-dedup container        *)
(* (writer and reader), the split-image reader, and the disc-image parser  *)
(* and extractor (partition table, file table of the SI partition, the     *)
(* files Extract writes).                                                  *)
(*                                                                         *)
(* Files are sequences of bytes (0..255); file offsets are 0-based as in   *)
(* the Go code, sequence indices 1-based.  Errors are strings; the nil     *)
(* error is Nil.                                                           *)
(***************************************************************************)
EXTENDS Integers, Sequences, FiniteSets, TLC

\* ------------------------------------------------------------------ bounds

\* Largest image the writer scenarios declare, in sectors.
MaxSectors == 2

\* Largest number of Write calls made on one writer.
MaxWrites == 3

\* Largest number of Read and ReadAt calls made on one reader.
MaxReads == 2

\* Length of the hand-made files given to NewReader.
RawLen == 1300

\* Largest number of fragments game_part1.wud, game_part2.wud, ... in a row.
MaxFrags == 3

\* ------------------------------------------------------- program constants

magic0 == 811095383        \* 0x30585557, "WUX0"

magic1 == 278515758        \* 0x1099d02e

headerSize == 32           \* unsafe.Sizeof(header{})

MinSectorSize == 256       \* 0x100

LimSectorSize == 268435456 \* 0x10000000

\* ------------------------------------------------------------------ errors

Nil == "nil"

ErrBadMagic == "wux: bad magic"

ErrBadSectorSize == "wux: bad sector size"

ErrNotEnough == "wux: not enough data written"

EOF == "EOF"

ErrUnexpectedEOF == "unexpected EOF"

\* Errors the sink (the io.WriteSeeker under the writer) can return.
SinkErrs == {"EIO", "ENOSPC"}

\* ----------------------------------------------------------- byte helpers

Min(a, b) == IF a < b THEN a ELSE b

Zeros(n) == [j \in 1..n |-> 0]

\* bytes [a, b) of file f, 0-based, clipped to the file
Slice(f, a, b) == SubSeq(f, a + 1, Min(b, Len(f)))

\* encoding/binary little-endian: n bytes of v, least significant first
RECURSIVE LEBytes(_, _)
LEBytes(v, n) == IF n = 0 THEN << >> ELSE <<v % 256>> \o LEBytes(v \div 256, n - 1)

\* encoding/binary little-endian decoding of a byte string
RECURSIVE FromLE(_)
FromLE(bs) == IF bs = << >> THEN 0 ELSE bs[1] + 256 * FromLE(Tail(bs))

\* binary.Write of a []uint32
RECURSIVE EncodeTable(_)
EncodeTable(t) == IF t = << >> THEN << >> ELSE LEBytes(t[1], 4) \o EncodeTable(Tail(t))

\* binary.Read of a []uint32 from 4*n bytes
DecodeTable(bs, n) == [i \in 1..n |-> FromLE(SubSeq(bs, 4 * i - 3, 4 * i))]

\* x &^ m for x, m >= 0
RECURSIVE AndNot(_, _)
AndNot(x, m) ==
  IF x = 0 THEN 0
  ELSE (IF m % 2 = 1 THEN 0 ELSE x % 2) + 2 * AndNot(x \div 2, m \div 2)

\* (headerSize + tableSize<<2 + sectorSize - 1) & (-sectorSize): in two's
\* complement -s = ^(s-1), so x & (-s) clears in x the bits set in s-1.
SectorBase(tableSize, sectorSize) ==
  AndNot(headerSize + tableSize * 4 + sectorSize - 1, sectorSize - 1)

\* (limit + sectorSize - 1) / sectorSize
TableSize(limit, sectorSize) == (limit + sectorSize - 1) \div sectorSize

\* binary.Write of the wux header struct: Magic[2], SectorSize, pad,
\* UncompressedSize, Flags, pad
EncodeHeader(m0, m1, sectorSize, uncompressedSize) ==
  LEBytes(m0, 4) \o LEBytes(m1, 4) \o LEBytes(sectorSize, 4) \o Zeros(4)
    \o LEBytes(uncompressedSize, 8) \o Zeros(4) \o Zeros(4)

\* sha1 of a sector.  The digest is used only as the key of the dedup map;
\* it is modelled as collision-free, the sector's content standing for its
\* digest.
Sha1(sector) == sector

\* ------------------------------------------------------------------- sink

\* The sink is a file: its bytes, the seek position, and a log of the
\* operations made on it.
SinkSeek(s, off) ==
  [s EXCEPT !.pos = off, !.log = Append(@, [op |-> "seek", at |-> off, n |-> 0])]

\* os.File.Write at the seek position: a gap left by a seek past the end
\* reads as zeros; bytes under the written range are overwritten.
PutAt(f, pos, data) ==
  LET padded == IF Len(f) < pos THEN f \o Zeros(pos - Len(f)) ELSE f
  IN  SubSeq(padded, 1, pos) \o data \o SubSeq(padded, pos + Len(data) + 1, Len(padded))

SinkWrite(s, data) ==
  [s EXCEPT !.data = PutAt(@, s.pos, data),
            !.pos = @ + Len(data),
            !.log = Append(@, [op |-> "write", at |-> s.pos, n |-> Len(data)])]

\* ---------------------------------------------------------------- inputs

\* Sector sizes of the writer scenarios: a power of two and one that is not.
SectorSizes == {256, 384}

\* Content of the input stream: sector k of the stream follows pattern
\* plan[k mod Len(plan)].  Pattern 0 is all zero, pattern 1 all one, pattern
\* 2 is zero but for its last byte, pattern 3 is zero but for its first.
Plans == {<<0, 0>>, <<1, 0>>, <<3, 2>>}

PatByte(k, j, ss) ==
  CASE k = 0 -> 0
    [] k = 1 -> 1
    [] k = 2 -> IF j = ss - 1 THEN 7 ELSE 0
    [] OTHER -> IF j = 0 THEN 9 ELSE 0

VARIABLES
  cfg,      \* the scenario: sectorSize, uncompressedSize, plan
  sink,     \* the io.WriteSeeker: [data, pos, log]
  w,        \* the writer struct
  wpc,      \* "new", "open", "closed", "fault" (a run-time panic), "failed"
  wret,     \* what the last writer call returned
  fed,      \* number of bytes passed to Write so far
  nwrites,  \* number of Write calls so far
  r,        \* the wux reader struct
  rpc,      \* "none", "open", "failed", "fault" (a run-time panic)
  rret,     \* what the last reader call returned
  nreads    \* number of Read and ReadAt calls so far

wvars == <<cfg, sink, w, wpc, wret, fed, nwrites>>

rvars == <<r, rpc, rret, nreads>>

\* the state of the split-image reader
VARIABLES
  scfg,     \* the scenario the directory was built from
  fs,       \* the directory: path -> [data, openErr, statErr, closeErr]
  sname,    \* the path given to OpenReader
  sr,       \* the split reader: [multi, parts, c, off]
  spc,      \* "start", "open", "failed", "closed"
  sret,     \* what the last call returned
  closes,   \* path -> number of Close calls made on the file
  oplog     \* the file-system calls made, in order

svars == <<scfg, fs, sname, sr, spc, sret, closes, oplog>>

\* the state of the disc-image parser and extractor
VARIABLES
  dcfg,     \* the scenario the partition table or the disc was built from
  wud,      \* the WUD struct: [title, pt, files]
  dpc,      \* "start", "parsed", "failed", "extracted", "fault" (a run-time panic)
  dret,     \* what the last call returned
  imgreads, \* the ReadAt calls made on the image, in order
  outdir,   \* the files created in the output directory, in order
  nfinds    \* number of findPartition calls so far

dvars == <<dcfg, wud, dpc, dret, imgreads, outdir, nfinds>>

vars == <<wvars, rvars, svars, dvars>>

\* the split reader, unused by the wux scenarios
SplitIdle ==
  /\ scfg = << >>
  /\ fs = << >>
  /\ sname = << >>
  /\ sr = << >>
  /\ spc = "idle"
  /\ sret = << >>
  /\ closes = << >>
  /\ oplog = << >>

\* the disc parser, unused by the wux and split-reader scenarios
DiscIdle ==
  /\ dcfg = << >>
  /\ wud = << >>
  /\ dpc = "idle"
  /\ dret = << >>
  /\ imgreads = << >>
  /\ outdir = << >>
  /\ nfinds = 0

\* bytes [a, a+n) of the input stream of the scenario
Input(a, n) ==
  [j \in 1..n |->
     PatByte(cfg.plan[(((a + j - 1) \div cfg.sectorSize) % Len(cfg.plan)) + 1],
             (a + j - 1) % cfg.sectorSize, cfg.sectorSize)]

\* ----------------------------------------------------------------- writer

\* w.m[k] = v
MapPut(m, k, v) == [x \in DOMAIN m \cup {k} |-> IF x = k THEN v ELSE m[x]]

\* How a sink write inside one call goes wrong: the k-th write of the call
\* to reach the sink fails with error e after pw of its bytes (k = 0: none).
NoFail == [k |-> 0, e |-> Nil, pw |-> 0]

Fails == {NoFail, [k |-> 1, e |-> "EIO", pw |-> 0], [k |-> 2, e |-> "ENOSPC", pw |-> 1]}

\* v, ok := w.m[k]; if !ok { v = w.unique }: the index recorded for a sector
IndexNoLookup(m, key, unique) == unique

IndexFor(m, key, unique) == IF key \in DOMAIN m THEN m[key] ELSE unique

\* if w.err != nil, on entry to Write
WriteNeverLatched(ww) == FALSE

WriteLatched(ww) == ww.err # Nil

\* if w.b.Len() != 0 || w.off != w.limit, in Close
CloseRejectsTotalOnly(ww) == ww.off # ww.limit

CloseRejects(ww) == Len(ww.b) # 0 \/ ww.off # ww.limit

\* The loop of writer.Write over the buffered whole sectors.  The result is
\* the writer, the sink, the error returned and whether the call panicked.
RECURSIVE WriteLoop(_, _, _)
WriteLoop(ww, s, f) ==
  IF Len(ww.b) < ww.sectorSize
  THEN [w |-> ww, sink |-> s, err |-> Nil, fault |-> FALSE]
  ELSE
    LET sec == SubSeq(ww.b, 1, ww.sectorSize)
        key == Sha1(sec)
        ok  == key \in DOMAIN ww.m
        v   == IndexFor(ww.m, key, ww.unique)
        w1  == IF ok THEN ww
               ELSE [ww EXCEPT !.unique = @ + 1, !.m = MapPut(@, key, v)]
    IN  IF w1.sector >= Len(w1.table)
        THEN \* w.table[w.sector]: index out of range
             [w |-> w1, sink |-> s, err |-> Nil, fault |-> TRUE]
        ELSE
          LET w2 == [w1 EXCEPT !.table[w1.sector + 1] = v,
                               !.sector = @ + 1,
                               !.b = SubSeq(@, ww.sectorSize + 1, Len(@))]
          IN  IF ok THEN WriteLoop(w2, s, f)   \* io.CopyN to ioutil.Discard
              ELSE IF f.k = 1
              THEN [w |-> [w2 EXCEPT !.err = f.e],
                    sink |-> SinkWrite(s, SubSeq(sec, 1, f.pw)),
                    err |-> f.e, fault |-> FALSE]
              ELSE WriteLoop(w2, SinkWrite(s, sec),
                             IF f.k = 0 THEN f ELSE [f EXCEPT !.k = @ - 1])

NoWriter ==
  [b |-> << >>, err |-> Nil, m |-> << >>, off |-> 0, limit |-> 0,
   sectorSize |-> 0, unique |-> 0, sector |-> 0, table |-> << >>]

\* wux.NewWriter(ws, sectorSize, uncompressedSize); fail names the sink call
\* that returns an error, if any.
NewWriter(fail, e) ==
  /\ wpc = "new"
  /\ LET s0 == SinkSeek(sink, 0)
         s1 == SinkWrite(s0, EncodeHeader(magic0, magic1, cfg.sectorSize,
                                          cfg.uncompressedSize))
         tableSize == TableSize(cfg.uncompressedSize, cfg.sectorSize)
         off == SectorBase(tableSize, cfg.sectorSize)
         s2 == SinkSeek(s1, off)
     IN  CASE fail = "seek0" ->
                /\ wpc' = "failed" /\ wret' = [op |-> "NewWriter", n |-> 0, err |-> e]
                /\ UNCHANGED <<sink, w>>
           [] fail = "header" ->
                /\ wpc' = "failed" /\ wret' = [op |-> "NewWriter", n |-> 0, err |-> e]
                /\ sink' = s0
                /\ UNCHANGED w
           [] fail = "seekbase" ->
                /\ wpc' = "failed" /\ wret' = [op |-> "NewWriter", n |-> 0, err |-> e]
                /\ sink' = s1
                /\ UNCHANGED w
           [] OTHER ->
                /\ wpc' = "open" /\ wret' = [op |-> "NewWriter", n |-> 0, err |-> Nil]
                /\ sink' = s2
                /\ w' = [NoWriter EXCEPT !.limit = cfg.uncompressedSize,
                                         !.sectorSize = cfg.sectorSize,
                                         !.table = Zeros(tableSize)]
  /\ UNCHANGED <<cfg, fed, nwrites>>
  /\ UNCHANGED <<rvars, svars, dvars>>

\* writer.Write(p), p the next len bytes of the input stream
Write(len, f) ==
  /\ wpc = "open"
  /\ nwrites < MaxWrites
  /\ fed' = fed + len
  /\ nwrites' = nwrites + 1
  /\ IF WriteLatched(w)
     THEN /\ wret' = [op |-> "Write", n |-> 0, err |-> w.err]
          /\ UNCHANGED <<w, sink, wpc>>
     ELSE LET w0 == [w EXCEPT !.b = @ \o Input(fed, len), !.off = @ + len]
              wl == WriteLoop(w0, sink, f)
          IN  /\ w' = wl.w
              /\ sink' = wl.sink
              /\ wpc' = IF wl.fault THEN "fault" ELSE "open"
              /\ wret' = IF wl.fault THEN [op |-> "Write", n |-> 0, err |-> "panic"]
                         ELSE [op |-> "Write", n |-> len, err |-> wl.err]
  /\ UNCHANGED cfg
  /\ UNCHANGED <<rvars, svars, dvars>>

\* writer.Close(); fail names the sink call that returns an error, if any
Close(fail, e) ==
  /\ wpc = "open"
  /\ wpc' = "closed"
  /\ IF w.err # Nil
     THEN /\ wret' = [op |-> "Close", n |-> 0, err |-> w.err]
          /\ UNCHANGED sink
     ELSE IF CloseRejects(w)
     THEN /\ wret' = [op |-> "Close", n |-> 0, err |-> ErrNotEnough]
          /\ UNCHANGED sink
     ELSE LET s1 == SinkSeek(sink, headerSize)
              bs == EncodeTable(w.table)
          IN  CASE fail = "seek" ->
                     /\ wret' = [op |-> "Close", n |-> 0, err |-> e]
                     /\ UNCHANGED sink
                [] fail = "table" ->
                     /\ wret' = [op |-> "Close", n |-> 0, err |-> e]
                     /\ sink' = SinkWrite(s1, SubSeq(bs, 1, Min(1, Len(bs))))
                [] OTHER ->
                     /\ wret' = [op |-> "Close", n |-> 0, err |-> Nil]
                     /\ sink' = SinkWrite(s1, bs)
  /\ UNCHANGED <<cfg, w, fed, nwrites>>
  /\ UNCHANGED <<rvars, svars, dvars>>

\* ------------------------------------------------- io and readerutil

\* os.File.ReadAt(p, o) with len(p) = n: the bytes present, io.EOF when short
FileReadAt(f, n, o) ==
  LET got == Slice(f, o, o + n)
  IN  [p |-> got, err |-> IF Len(got) < n THEN EOF ELSE Nil]

\* io.SectionReader.ReadAt(p, off) with len(p) = n, over a section
\* [file, base, size]
SectionReadAt(sec, n, off) ==
  IF off < 0 \/ off >= sec.size THEN [p |-> << >>, err |-> EOF]
  ELSE LET o   == off + sec.base
           max == sec.base + sec.size - o
       IN  IF n > max
           THEN LET rr == FileReadAt(sec.file, max, o)
                IN  [p |-> rr.p, err |-> IF rr.err = Nil THEN EOF ELSE rr.err]
           ELSE FileReadAt(sec.file, n, o)

\* readerutil.NewMultiReaderAt: each part with the offset it starts at
RECURSIVE SumSizes(_, _)
SumSizes(parts, k) == IF k = 0 THEN 0 ELSE SumSizes(parts, k - 1) + parts[k].size

NewMultiReaderAt(parts) ==
  [parts |-> [i \in 1..Len(parts) |-> [off |-> SumSizes(parts, i - 1), src |-> parts[i]]],
   size  |-> SumSizes(parts, Len(parts))]

\* the loop of multiRA.ReadAt: parts left, bytes still wanted, needSkip, and
\* the bytes delivered so far
RECURSIVE MultiLoop(_, _, _, _)
MultiLoop(parts, want, needSkip, acc) ==
  IF parts = << >> \/ want = 0 THEN [p |-> acc, err |-> Nil]
  ELSE LET partSize == parts[1].src.size
           rl == IF want > partSize - needSkip THEN partSize - needSkip ELSE want
           rr == SectionReadAt(parts[1].src, rl, needSkip)
       IN  IF rr.err # Nil THEN [p |-> acc, err |-> rr.err]
           ELSE MultiLoop(IF Len(rr.p) + needSkip = partSize THEN Tail(parts) ELSE parts,
                          want - Len(rr.p), 0, acc \o rr.p)

\* multiRA.ReadAt(p, off) with len(p) = n
MultiReadAt(m, n, off) ==
  LET hits == {i \in 1..Len(m.parts) : m.parts[i].off + m.parts[i].src.size > off}
      \* sort.Search: the first part that ends after off
      skipParts == IF hits = {} THEN Len(m.parts)
                   ELSE (CHOOSE i \in hits : \A j \in hits : i <= j) - 1
      parts == SubSeq(m.parts, skipParts + 1, Len(m.parts))
      needSkip == IF Len(parts) > 0 THEN off - parts[1].off ELSE off
      res == MultiLoop(parts, n, needSkip, << >>)
  IN  IF res.err # Nil THEN res
      ELSE [p |-> res.p, err |-> IF Len(res.p) # n THEN ErrUnexpectedEOF ELSE Nil]

\* ------------------------------------------------------------- wux reader

NoReader == [base |-> 0, off |-> 0, limit |-> 0, sectorSize |-> 0, table |-> << >>]

\* binary.Read of n bytes through a SectionReader over [at, at+n) of f:
\* io.ReadFull's error when the file is short
ReadFullErr(f, at, n) ==
  LET got == Slice(f, at, at + n)
  IN  IF Len(got) = n THEN Nil
      ELSE IF Len(got) = 0 THEN EOF ELSE ErrUnexpectedEOF

\* wux.NewReader with the sector-size check ahead of the magic check
NewReaderSizeFirst(f) ==
  IF ReadFullErr(f, 0, headerSize) # Nil
  THEN [err |-> ReadFullErr(f, 0, headerSize), r |-> NoReader]
  ELSE IF FromLE(SubSeq(f, 9, 12)) < MinSectorSize \/ FromLE(SubSeq(f, 9, 12)) >= LimSectorSize
  THEN [err |-> ErrBadSectorSize, r |-> NoReader]
  ELSE IF FromLE(SubSeq(f, 1, 4)) # magic0 \/ FromLE(SubSeq(f, 5, 8)) # magic1
  THEN [err |-> ErrBadMagic, r |-> NoReader]
  ELSE [err |-> EOF, r |-> NoReader]

\* wux.NewReader(ra) over the file f: the error returned and the reader
NewReaderOf(f) ==
  IF ReadFullErr(f, 0, headerSize) # Nil
  THEN [err |-> ReadFullErr(f, 0, headerSize), r |-> NoReader]
  ELSE
    LET m0 == FromLE(SubSeq(f, 1, 4))
        m1 == FromLE(SubSeq(f, 5, 8))
        ss == FromLE(SubSeq(f, 9, 12))
        us == FromLE(SubSeq(f, 17, 24))
        tableSize == TableSize(us, ss)
    IN  IF m0 # magic0 \/ m1 # magic1 THEN [err |-> ErrBadMagic, r |-> NoReader]
        ELSE IF ss < MinSectorSize \/ ss >= LimSectorSize
        THEN [err |-> ErrBadSectorSize, r |-> NoReader]
        ELSE IF ReadFullErr(f, headerSize, tableSize * 4) # Nil
        THEN [err |-> ReadFullErr(f, headerSize, tableSize * 4), r |-> NoReader]
        ELSE [err |-> Nil,
              r |-> [base |-> SectorBase(tableSize, ss), off |-> 0, limit |-> us,
                     sectorSize |-> ss,
                     table |-> DecodeTable(Slice(f, headerSize, headerSize + tableSize * 4),
                                           tableSize)]]

\* reader.newSizeReaderAt(l, off) with the sector index used in place of the
\* table entry
RECURSIVE SectorPartsNoTable(_, _, _, _)
SectorPartsNoTable(rd, f, l, off) ==
  IF l <= 0 THEN [parts |-> << >>, fault |-> FALSE]
  ELSE LET sectorOffset == off % rd.sectorSize
           sectorIndex == off \div rd.sectorSize
           limit == Min(rd.sectorSize - sectorOffset, l)
       IN  IF sectorIndex >= Len(rd.table) THEN [parts |-> << >>, fault |-> TRUE]
           ELSE LET rest == SectorPartsNoTable(rd, f, l - limit, off + limit)
                    sec == [file |-> f,
                            base |-> rd.base + sectorIndex * rd.sectorSize + sectorOffset,
                            size |-> limit]
                IN  [parts |-> <<sec>> \o rest.parts, fault |-> rest.fault]

\* reader.newSizeReaderAt(l, off) over the file f: the sections, one per
\* sector touched, and whether r.table was indexed out of range
RECURSIVE SectorParts(_, _, _, _)
SectorParts(rd, f, l, off) ==
  IF l <= 0 THEN [parts |-> << >>, fault |-> FALSE]
  ELSE LET sectorOffset == off % rd.sectorSize
           sectorIndex == off \div rd.sectorSize
           limit == Min(rd.sectorSize - sectorOffset, l)
       IN  IF sectorIndex >= Len(rd.table) THEN [parts |-> << >>, fault |-> TRUE]
           ELSE LET rest == SectorParts(rd, f, l - limit, off + limit)
                    sec == [file |-> f,
                            base |-> rd.base + rd.table[sectorIndex + 1] * rd.sectorSize
                                       + sectorOffset,
                            size |-> limit]
                IN  [parts |-> <<sec>> \o rest.parts, fault |-> rest.fault]

\* r.newSizeReaderAt(n, off).ReadAt(p, 0) with len(p) = n
SectorsReadAt(rd, f, n, off) ==
  LET sp == SectorParts(rd, f, n, off)
  IN  IF sp.fault THEN [p |-> << >>, err |-> "panic"]
      ELSE MultiReadAt(NewMultiReaderAt(sp.parts), n, 0)

\* reader.ReadAt without the io.EOF of a truncated request
WuxReadAtNoEOF(rd, f, n, off) ==
  IF off < 0 \/ off >= rd.limit THEN [p |-> << >>, err |-> EOF]
  ELSE SectorsReadAt(rd, f, Min(n, rd.limit - off), off)

\* reader.ReadAt(p, off) with len(p) = n
WuxReadAt(rd, f, n, off) ==
  IF off < 0 \/ off >= rd.limit THEN [p |-> << >>, err |-> EOF]
  ELSE IF n > rd.limit - off
  THEN LET rr == SectorsReadAt(rd, f, rd.limit - off, off)
       IN  [p |-> rr.p, err |-> IF rr.err = Nil THEN EOF ELSE rr.err]
  ELSE SectorsReadAt(rd, f, n, off)

\* reader.Read(p) with len(p) = n: the result and the new r.off
WuxRead(rd, f, n) ==
  IF rd.off >= rd.limit THEN [p |-> << >>, err |-> EOF, off |-> rd.off]
  ELSE LET rr == SectorsReadAt(rd, f, Min(n, rd.limit - rd.off), rd.off)
       IN  [p |-> rr.p, err |-> rr.err, off |-> rd.off + Len(rr.p)]

\* wux.NewReader over the sink's file, once the writer is done with it
NewReader ==
  /\ rpc = "none"
  /\ \/ wpc = "raw"
     \/ wpc = "closed" /\ wret.err = Nil
  /\ LET nr == NewReaderOf(sink.data)
     IN  /\ r' = nr.r
         /\ rpc' = IF nr.err = Nil THEN "open" ELSE "failed"
         /\ rret' = [op |-> "NewReader", n |-> 0, off |-> 0, p |-> << >>, err |-> nr.err]
  /\ UNCHANGED nreads
  /\ UNCHANGED <<wvars, svars, dvars>>

\* reader.ReadAt(p, off) with len(p) = n
ReadAt(n, off) ==
  /\ rpc = "open"
  /\ nreads < MaxReads
  /\ nreads' = nreads + 1
  /\ LET rr == WuxReadAt(r, sink.data, n, off)
     IN  /\ rret' = [op |-> "ReadAt", n |-> n, off |-> off, p |-> rr.p, err |-> rr.err]
         /\ rpc' = IF rr.err = "panic" THEN "fault" ELSE "open"
  /\ UNCHANGED r
  /\ UNCHANGED <<wvars, svars, dvars>>

\* reader.Read(p) with len(p) = n
Read(n) ==
  /\ rpc = "open"
  /\ nreads < MaxReads
  /\ nreads' = nreads + 1
  /\ LET rr == WuxRead(r, sink.data, n)
     IN  /\ rret' = [op |-> "Read", n |-> n, off |-> r.off, p |-> rr.p, err |-> rr.err]
         /\ r' = [r EXCEPT !.off = rr.off]
         /\ rpc' = IF rr.err = "panic" THEN "fault" ELSE "open"
  /\ UNCHANGED <<wvars, svars, dvars>>

\* the offsets and lengths of the reads tried on a reader
ReadOffs == {-1, 0, r.sectorSize - 1, r.limit - 1, r.limit}

ReadLens == {0, 2, r.sectorSize + 1, r.limit + 1}

\* the lengths of the chunks handed to Write
ChunkLens == {0, 1, cfg.sectorSize - 1, cfg.sectorSize + 1, 2 * cfg.sectorSize}

\* the image sizes declared to NewWriter
Sizes(ss) == {k * ss : k \in 0..MaxSectors} \cup {1, ss + 1}

\* the writer scenarios
Configs ==
  UNION {[sectorSize : {ss}, uncompressedSize : Sizes(ss), plan : Plans] : ss \in SectorSizes}

WuxInit ==
  /\ cfg \in Configs
  /\ sink = [data |-> << >>, pos |-> 0, log |-> << >>]
  /\ w = NoWriter
  /\ wpc = "new"
  /\ wret = [op |-> "none", n |-> 0, err |-> Nil]
  /\ fed = 0
  /\ nwrites = 0
  /\ r = NoReader
  /\ rpc = "none"
  /\ rret = [op |-> "none", n |-> 0, off |-> 0, p |-> << >>, err |-> Nil]
  /\ nreads = 0
  /\ SplitIdle
  /\ DiscIdle

WuxNext ==
  \/ \E fail \in {"none", "seek0", "header", "seekbase"}, e \in SinkErrs : NewWriter(fail, e)
  \/ \E len \in ChunkLens, f \in Fails : Write(len, f)
  \/ \E fail \in {"none", "seek", "table"}, e \in SinkErrs : Close(fail, e)
  \/ NewReader
  \/ \E n \in ReadLens, off \in ReadOffs : ReadAt(n, off)
  \/ \E n \in ReadLens \ {0} : Read(n)

SpecWux == WuxInit /\ [][WuxNext]_vars

\* ------------------------------------------- NewReader over any file

\* Hand-made files: a header with the given words, the table entries and
\* a filler whose byte at file offset x is x mod 101, cut to a length.
Filler(from, to) == [j \in 1..(to - from) |-> (from + j - 1) % 101]

RawFile(c) ==
  SubSeq(EncodeHeader(c.m0, c.m1, c.sectorSize, c.uncompressedSize)
           \o EncodeTable(c.tbl)
           \o Filler(headerSize + 4 * Len(c.tbl), RawLen),
         1, c.cut)

RawConfigs ==
  UNION {[m0 : {magic0, 0, magic0 + 16777216},
          m1 : {magic1, magic1 + 1},
          sectorSize : {ss},
          uncompressedSize : {0, 1, ss + 1},
          tbl : {<<0, 1, 2>>, <<2, 0, 3>>},
          cut : {0, 31, 32, 36, RawLen},
          plan : {<<0>>}] : ss \in {255, 256, 384, 268435455, 268435456}}

RawInit ==
  /\ cfg \in RawConfigs
  /\ sink = [data |-> RawFile(cfg), pos |-> 0, log |-> << >>]
  /\ w = NoWriter
  /\ wpc = "raw"
  /\ wret = [op |-> "none", n |-> 0, err |-> Nil]
  /\ fed = 0
  /\ nwrites = 0
  /\ r = NoReader
  /\ rpc = "none"
  /\ rret = [op |-> "none", n |-> 0, off |-> 0, p |-> << >>, err |-> Nil]
  /\ nreads = 0
  /\ SplitIdle
  /\ DiscIdle

RawNext ==
  \/ NewReader
  \/ \E n \in ReadLens, off \in ReadOffs : ReadAt(n, off)
  \/ \E n \in ReadLens \ {0} : Read(n)

SpecRaw == RawInit /\ [][RawNext]_vars

\* ------------------------------------------------------- split reader

multipart == "game_part"

Extension == ".wud"

\* fmt.Sprintf("%s%d%s", multipart, i, Extension): a base name is the
\* sequence of the pieces it is printed from
FragName(i) == <<multipart, i, Extension>>

\* A path is a directory and a base name.
Base(name) == name.base

Dir(name) == name.dir

Join(dir, base) == [dir |-> dir, base |-> base]

\* Errors of the file system and of multierror are records.
NoErr == [kind |-> "nil", at |-> << >>]

ENOENT(path) == [kind |-> "ENOENT", at |-> path.base]

\* os.IsNotExist
IsNotExist(err) == err.kind = "ENOENT"

\* multierror.Append(err, e): a *multierror.Error holding the errors of err
\* (its list when it is one already, itself when it is another non-nil
\* error) followed by e unless e is nil
MultiAppend(err, e) ==
  [kind |-> "multierror",
   errs |-> (IF err.kind = "multierror" THEN err.errs
             ELSE IF err = NoErr THEN << >> ELSE <<err>>)
            \o (IF e = NoErr THEN << >> ELSE <<e>>)]

\* fs.Open(path): the error
FsOpenErr(path) == IF path \in DOMAIN fs THEN fs[path].openErr ELSE ENOENT(path)

\* the loops of OpenReader's error paths: every file opened so far is closed,
\* in order, each close error appended to err: the error, the close counts and the log afterwards
RECURSIVE CloseAll(_, _, _, _)
CloseAll(files, err, cl, log) ==
  IF files = << >> THEN [err |-> err, closes |-> cl, log |-> log]
  ELSE CloseAll(Tail(files),
                MultiAppend(err, fs[Head(files)].closeErr),
                [cl EXCEPT ![Head(files)] = @ + 1],
                Append(log, [op |-> "close", path |-> Head(files)]))

NoSplitReader == [multi |-> FALSE, parts |-> << >>, c |-> << >>, off |-> 0]

\* io.NewSectionReader(f, 0, info.Size())
FileSection(path) == [file |-> fs[path].data, base |-> 0, size |-> Len(fs[path].data)]

\* files = append(files, f)
AppendFileDropped(files, path) == files

AppendFile(files, path) == Append(files, path)

\* filepath.Base(name) == fmt.Sprintf("%s1%s", multipart, Extension)
IsMultipartAnyIndex(name) == Len(Base(name)) = 3 /\ Base(name)[1] = multipart

IsMultipart(name) == Base(name) = FragName(1)

\* the loop of reader.Close, stopping at the first close that fails
RECURSIVE CloseEachUntilError(_, _, _, _)
CloseEachUntilError(files, err, cl, log) ==
  IF files = << >> \/ (err # NoErr /\ err.errs # << >>)
  THEN [err |-> err, closes |-> cl, log |-> log]
  ELSE CloseEachUntilError(Tail(files),
                           MultiAppend(err, fs[Head(files)].closeErr),
                           [cl EXCEPT ![Head(files)] = @ + 1],
                           Append(log, [op |-> "close", path |-> Head(files)]))

\* the loop of reader.Close over r.c: err = multierror.Append(err, c.Close())
RECURSIVE CloseEach(_, _, _, _)
CloseEach(files, err, cl, log) ==
  IF files = << >> THEN [err |-> err, closes |-> cl, log |-> log]
  ELSE CloseEach(Tail(files),
                 MultiAppend(err, fs[Head(files)].closeErr),
                 [cl EXCEPT ![Head(files)] = @ + 1],
                 Append(log, [op |-> "close", path |-> Head(files)]))

\* the loop of OpenReader over game_part2.wud, game_part3.wud, ...
RECURSIVE OpenParts(_, _, _, _, _)
OpenParts(name, files, mr, i, log) ==
  LET path == Join(Dir(name), FragName(i))
      log1 == Append(log, [op |-> "open", path |-> path])
  IN  IF FsOpenErr(path) # NoErr
      THEN IF IsNotExist(FsOpenErr(path))
           THEN [err |-> NoErr, files |-> files, mr |-> mr, closes |-> closes, log |-> log1]
           ELSE LET ca == CloseAll(files, FsOpenErr(path), closes, log1)
                IN  [err |-> ca.err, files |-> files, mr |-> mr,
                     closes |-> ca.closes, log |-> ca.log]
      ELSE LET files1 == AppendFile(files, path)
               log2 == Append(log1, [op |-> "stat", path |-> path])
           IN  IF fs[path].statErr # NoErr
               THEN LET ca == CloseAll(files1, fs[path].statErr, closes, log2)
                    IN  [err |-> ca.err, files |-> files1, mr |-> mr,
                         closes |-> ca.closes, log |-> ca.log]
               ELSE OpenParts(name, files1, Append(mr, FileSection(path)), i + 1, log2)

\* wud.OpenReader(name)
OpenReader ==
  /\ spc = "start"
  /\ LET log1 == Append(oplog, [op |-> "open", path |-> sname])
         log2 == Append(log1, [op |-> "stat", path |-> sname])
     IN  IF FsOpenErr(sname) # NoErr
         THEN /\ spc' = "failed"
              /\ sret' = [op |-> "OpenReader", err |-> FsOpenErr(sname), n |-> 0,
                          off |-> 0, p |-> << >>]
              /\ oplog' = log1
              /\ UNCHANGED <<sr, closes>>
         ELSE IF fs[sname].statErr # NoErr
         THEN LET ca == CloseAll(<<sname>>, fs[sname].statErr, closes, log2)
              IN  /\ spc' = "failed"
                  /\ sret' = [op |-> "OpenReader", err |-> ca.err, n |-> 0,
                              off |-> 0, p |-> << >>]
                  /\ oplog' = ca.log
                  /\ closes' = ca.closes
                  /\ UNCHANGED sr
         ELSE IF IsMultipart(sname)
         THEN LET op == OpenParts(sname, <<sname>>, <<FileSection(sname)>>, 2, log2)
              IN  /\ spc' = IF op.err = NoErr THEN "open" ELSE "failed"
                  /\ sret' = [op |-> "OpenReader", err |-> op.err, n |-> 0,
                              off |-> 0, p |-> << >>]
                  /\ oplog' = op.log
                  /\ closes' = op.closes
                  /\ sr' = IF op.err = NoErr
                           THEN [multi |-> TRUE, parts |-> op.mr, c |-> op.files, off |-> 0]
                           ELSE sr
         ELSE /\ spc' = "open"
              /\ sret' = [op |-> "OpenReader", err |-> NoErr, n |-> 0,
                          off |-> 0, p |-> << >>]
              /\ oplog' = log2
              /\ sr' = [multi |-> FALSE, parts |-> <<FileSection(sname)>>,
                        c |-> <<sname>>, off |-> 0]
              /\ UNCHANGED closes
  /\ UNCHANGED <<scfg, fs, sname, wvars, rvars, dvars>>

\* reader.Size()
SplitSize(rd) ==
  IF rd.multi THEN NewMultiReaderAt(rd.parts).size ELSE rd.parts[1].size

\* reader.ReadAt(p, off) with len(p) = n: r.r.ReadAt(p, off)
SplitReadAt(rd, n, off) ==
  IF rd.multi THEN MultiReadAt(NewMultiReaderAt(rd.parts), n, off)
  ELSE SectionReadAt(rd.parts[1], n, off)

SReadAt(n, off) ==
  /\ spc = "open"
  /\ LET rr == SplitReadAt(sr, n, off)
     IN  sret' = [op |-> "ReadAt", err |-> rr.err, n |-> n, off |-> off, p |-> rr.p]
  /\ UNCHANGED <<scfg, fs, sname, sr, spc, closes, oplog, wvars, rvars, dvars>>

\* reader.Read(p) with len(p) = n: the bytes, the error and the new r.off
SplitRead(rd, n) ==
  LET rr == SplitReadAt(rd, n, rd.off)
  IN  [p |-> rr.p, off |-> rd.off + Len(rr.p),
       err |-> IF rr.err = ErrUnexpectedEOF
               THEN (IF Len(rr.p) > 0 THEN Nil ELSE EOF)
               ELSE rr.err]

SRead(n) ==
  /\ spc = "open"
  /\ LET rr == SplitRead(sr, n)
     IN  /\ sret' = [op |-> "Read", err |-> rr.err, n |-> n, off |-> sr.off, p |-> rr.p]
         /\ sr' = [sr EXCEPT !.off = rr.off]
  /\ UNCHANGED <<scfg, fs, sname, spc, closes, oplog, wvars, rvars, dvars>>

ErrWhence == "wud: invalid whence"

ErrOffset == "wud: invalid offset"

\* io.SeekStart, io.SeekCurrent, io.SeekEnd
SeekStart == 0

SeekCurrent == 1

SeekEnd == 2

\* reader.Seek without the test against r.Size()
SplitSeekNoLimit(rd, offset, whence) ==
  IF whence \notin {SeekStart, SeekCurrent, SeekEnd}
  THEN [ret |-> 0, err |-> ErrWhence, off |-> rd.off]
  ELSE LET target == offset + (CASE whence = SeekStart -> 0
                                 [] whence = SeekCurrent -> rd.off
                                 [] OTHER -> SplitSize(rd))
       IN  IF target < 0
           THEN [ret |-> 0, err |-> ErrOffset, off |-> rd.off]
           ELSE [ret |-> target, err |-> Nil, off |-> target]

\* reader.Seek(offset, whence): what it returns and the new r.off
SplitSeek(rd, offset, whence) ==
  IF whence \notin {SeekStart, SeekCurrent, SeekEnd}
  THEN [ret |-> 0, err |-> ErrWhence, off |-> rd.off]
  ELSE LET target == offset + (CASE whence = SeekStart -> 0
                                 [] whence = SeekCurrent -> rd.off
                                 [] OTHER -> SplitSize(rd))
       IN  IF target < 0 \/ target > SplitSize(rd)
           THEN [ret |-> 0, err |-> ErrOffset, off |-> rd.off]
           ELSE [ret |-> target, err |-> Nil, off |-> target]

SSeek(offset, whence) ==
  /\ spc = "open"
  /\ LET sk == SplitSeek(sr, offset, whence)
     IN  /\ sret' = [op |-> "Seek", err |-> sk.err, n |-> sk.ret, off |-> sr.off,
                     p |-> << >>, arg |-> offset, whence |-> whence]
         /\ sr' = [sr EXCEPT !.off = sk.off]
  /\ UNCHANGED <<scfg, fs, sname, spc, closes, oplog, wvars, rvars, dvars>>

\* reader.Close()
SClose ==
  /\ spc = "open"
  /\ spc' = "closed"
  /\ LET ca == CloseEach(sr.c, NoErr, closes, oplog)
     IN  /\ sret' = [op |-> "Close", err |-> ca.err, n |-> 0, off |-> 0, p |-> << >>]
         /\ closes' = ca.closes
         /\ oplog' = ca.log
  /\ UNCHANGED <<scfg, fs, sname, sr, wvars, rvars, dvars>>

\* ---- the directories tried

\* the bytes of fragment i: each byte names its fragment and its position
FragData(i, n) == [j \in 1..n |-> 10 * i + j]

OtherName == <<"image", Extension>>

UpperName == <<"GAME_PART", 1, Extension>>

TheDir == "d"

CloseFailure(base) == [kind |-> "close failed", at |-> base]

\* A scenario: the sizes of game_part1.wud .. game_partk.wud, whether
\* game_part(k+2).wud exists past the gap, the call that fails (with an error
\* other than does-not-exist) and on which fragment, the fragments whose Close
\* fails, and the base name given.
Sizes3 == UNION {[1..k -> {0, 1, 2}] : k \in 1..MaxFrags}

SplitConfigs ==
  [sizes : Sizes3, gap : BOOLEAN, fault : {[op |-> "none", at |-> 0]},
   closeFail : {{}},
   name : {FragName(1), FragName(2), OtherName, UpperName}]
  \cup
  UNION {[sizes : {[i \in 1..k |-> 1]}, gap : {FALSE},
          fault : [op : {"open", "stat"}, at : 1..k] \cup {[op |-> "none", at |-> 0]},
          closeFail : {{}, {1}, {k}, 1..k},
          name : {FragName(1), OtherName}] : k \in 1..MaxFrags}

FileOf(c, b, data, i) ==
  [data |-> data,
   openErr |-> IF c.fault = [op |-> "open", at |-> i]
               THEN [kind |-> "EACCES", at |-> b] ELSE NoErr,
   statErr |-> IF c.fault = [op |-> "stat", at |-> i]
               THEN [kind |-> "EIO", at |-> b] ELSE NoErr,
   closeErr |-> IF i \in c.closeFail THEN CloseFailure(b) ELSE NoErr]

\* the index of a fragment's base name, 0 for another name
FragIndex(b) == IF Len(b) = 3 /\ b[1] = multipart THEN b[2] ELSE 0

MkFs(c) ==
  LET k == Len(c.sizes)
      frags == (1..k) \cup (IF c.gap THEN {k + 2} ELSE {})
      bases == {FragName(i) : i \in frags} \cup {OtherName, UpperName}
  IN  [path \in {Join(TheDir, b) : b \in bases} |->
         LET i == FragIndex(path.base)
         IN  IF i = 0 THEN FileOf(c, path.base, <<98, 99>>, 0)
             ELSE FileOf(c, path.base,
                         FragData(i, IF i <= k THEN c.sizes[i] ELSE 1), i)]

\* the offsets and lengths of the reads tried on a split reader
SplitOffs == IF spc = "open" THEN 0..SplitSize(sr) ELSE {}

SplitLens == 0..3

SplitInit ==
  /\ scfg \in SplitConfigs
  /\ fs = MkFs(scfg)
  /\ sname = Join(TheDir, scfg.name)
  /\ sr = NoSplitReader
  /\ spc = "start"
  /\ sret = [op |-> "none", err |-> NoErr, n |-> 0, off |-> 0, p |-> << >>]
  /\ closes = [path \in DOMAIN fs |-> 0]
  /\ oplog = << >>
  /\ cfg = << >>
  /\ sink = << >>
  /\ w = NoWriter
  /\ wpc = "idle"
  /\ wret = << >>
  /\ fed = 0
  /\ nwrites = 0
  /\ r = NoReader
  /\ rpc = "idle"
  /\ rret = << >>
  /\ nreads = 0
  /\ DiscIdle

\* the arguments of the Seek calls tried
SeekOffsets == {-1, 0, 1, 7}

Whences == {SeekStart, SeekCurrent, SeekEnd, 3}

SplitNext ==
  \/ OpenReader
  \/ \E n \in SplitLens, off \in SplitOffs : SReadAt(n, off)
  \/ \E n \in SplitLens : SRead(n)
  \/ \E offset \in SeekOffsets, whence \in Whences : SSeek(offset, whence)
  \/ SClose

SpecSplit == SplitInit /\ [][SplitNext]_vars

\* ------------------------------------------------------------- disc image

\* Largest number of findPartition calls made on one partition table.
MaxFinds == 2

SectorSize == 32768        \* 0x8000

keySize == 16

\* the partition-table magic 0xcca6e67b, as its four big-endian bytes
magic == <<204, 166, 230, 123>>

pthSize == 32              \* unsafe.Sizeof(pth): Magic, pad, Checksum[20], NumPartitions

pteSize == 128             \* binary.Size(pte): Name[0x1f], pad, Offset, pad[0x5c]

ptBodyOffset == 2048       \* 0x800

pteNameLen == 31           \* 0x1f

ErrBadPTMagic == "wud: bad magic"

ErrBadChecksum == "wud: bad TOC checksum"

ErrNoPartition == "wud: can't find partition"

\* encoding/binary big-endian: n bytes of v, most significant first
RECURSIVE BEBytes(_, _)
BEBytes(v, n) == IF n = 0 THEN << >> ELSE BEBytes(v \div 256, n - 1) \o <<v % 256>>

\* encoding/binary big-endian decoding of a byte string
RECURSIVE FromBE(_)
FromBE(bs) ==
  IF bs = << >> THEN 0 ELSE 256 * FromBE(SubSeq(bs, 1, Len(bs) - 1)) + bs[Len(bs)]

\* A position in the image is a whole number of sectors and a byte offset
\* inside the sector, s * SectorSize + o: the image is longer than 2^31 bytes.
Pos(s, o) == [s |-> s + (o \div SectorSize), o |-> o % SectorSize]

PosAdd(p, n) == Pos(p.s, p.o + n)

PosLess(p, q) == p.s < q.s \/ (p.s = q.s /\ p.o < q.o)

\* bytes.TrimRight(b, "\x00")
RECURSIVE TrimRight(_)
TrimRight(b) ==
  IF b # << >> /\ b[Len(b)] = 0 THEN TrimRight(SubSeq(b, 1, Len(b) - 1)) ELSE b

\* strings.HasPrefix(k, prefix)
HasPrefix(k, prefix) == Len(k) >= Len(prefix) /\ SubSeq(k, 1, Len(prefix)) = prefix

\* The plaintext stream handed to newPartitionTable is [b, sum]: b its bytes,
\* the 20 bytes of the Checksum field (offsets 8..27) left zero in b and the
\* digest they hold kept in sum.

\* what the hash h has been fed when the stream ends: the records alone
HashedRecordsOnly(body, n) == SubSeq(body, 1, pteSize * n)

\* tr := io.TeeReader(r, h): every byte read from offset 0x800 on, the
\* records and then the rest of the stream
Hashed(body, n) == body

\* the loop of newPartitionTable over the first n records of body:
\* pt[name] = int64(pte.Offset) * int64(SectorSize), a later record replacing
\* an earlier one of the same name
ReadEntries(body, n) ==
  LET rec(i) == SubSeq(body, pteSize * (i - 1) + 1, pteSize * i)
      names == [i \in 1..n |-> TrimRight(SubSeq(rec(i), 1, pteNameLen))]
      last(k) == CHOOSE i \in 1..n : names[i] = k /\ \A j \in (i + 1)..n : names[j] # k
  IN  [k \in {names[i] : i \in 1..n} |->
         Pos(FromBE(SubSeq(rec(last(k)), pteNameLen + 2, pteNameLen + 5)), 0)]

NoPT == << >>

\* newPartitionTable(r) over the stream st: the error and the table
NewPartitionTableOf(st) ==
  IF Len(st.b) < pthSize
  THEN [err |-> IF Len(st.b) = 0 THEN EOF ELSE ErrUnexpectedEOF, pt |-> NoPT]
  ELSE IF SubSeq(st.b, 1, 4) # magic THEN [err |-> ErrBadPTMagic, pt |-> NoPT]
  ELSE IF Len(st.b) < ptBodyOffset THEN [err |-> EOF, pt |-> NoPT]
  ELSE
    LET n == FromBE(SubSeq(st.b, 29, 32))
        body == SubSeq(st.b, ptBodyOffset + 1, Len(st.b))
    IN  IF Len(body) < pteSize * n
        THEN [err |-> IF Len(body) % pteSize = 0 THEN EOF ELSE ErrUnexpectedEOF,
              pt |-> NoPT]
        ELSE IF Sha1(Hashed(body, n)) # st.sum
        THEN [err |-> ErrBadChecksum, pt |-> NoPT]
        ELSE [err |-> Nil, pt |-> ReadEntries(body, n)]

\* for k, v := range pt { if strings.HasPrefix(k, prefix) ... }: the names the
\* loop can stop at.  The iteration order of a Go map is not specified, so
\* any name with the prefix can be the one returned.
Matches(pt, prefix) == {k \in DOMAIN pt : HasPrefix(k, prefix)}

NoWUD == [title |-> << >>, pt |-> NoPT, files |-> << >>, common |-> << >>, game |-> << >>]

\* ---- the partition-table sectors tried

\* fmt.Sprintf("%X") of one byte: two upper-case hexadecimal digits
HexDigit(d) == IF d < 10 THEN 48 + d ELSE 55 + d

RECURSIVE HexUpper(_)
HexUpper(bs) ==
  IF bs = << >> THEN << >>
  ELSE <<HexDigit(bs[1] \div 16), HexDigit(bs[1] % 16)>> \o HexUpper(Tail(bs))

\* fmt.Sprintf("GM%016X", tmd.TitleID), the title ID as its 8 big-endian bytes
GMPrefix(tid) == <<71, 77>> \o HexUpper(tid)

TitleA == <<0, 5, 0, 0, 16, 16, 29, 0>>

TitleB == <<0, 5, 0, 0, 16, 16, 29, 1>>

NameSI == <<83, 73>>

NameUP == <<85, 80>>

\* a partition record: the name, NUL-padded to 0x1f bytes, and the offset in
\* sectors
PTRecord(e) ==
  e.name \o Zeros(pteNameLen - Len(e.name)) \o <<0>> \o BEBytes(e.off, 4) \o Zeros(92)

RECURSIVE PTRecords(_)
PTRecords(tbl) == IF tbl = << >> THEN << >> ELSE PTRecord(tbl[1]) \o PTRecords(Tail(tbl))

PTEntry(name, off) == [name |-> name, off |-> off]

\* the tables: none, SI alone, SI and one GM partition, two GM partitions of
\* one title (names that share the prefix), the same name twice, three
\* different partitions
Tables ==
  { << >>,
    <<PTEntry(NameSI, 4)>>,
    <<PTEntry(NameSI, 4), PTEntry(GMPrefix(TitleA), 16)>>,
    <<PTEntry(GMPrefix(TitleA) \o <<48>>, 16), PTEntry(GMPrefix(TitleA) \o <<49>>, 24),
      PTEntry(NameSI, 4)>>,
    <<PTEntry(GMPrefix(TitleA), 24), PTEntry(GMPrefix(TitleA), 16)>>,
    <<PTEntry(NameUP, 32), PTEntry(NameSI, 4), PTEntry(GMPrefix(TitleB), 16)>> }

\* the sector of a scenario before any byte is changed
PTBody(c) ==
  PTRecords(c.tbl) \o Zeros(SectorSize - ptBodyOffset - pteSize * Len(c.tbl))

PTSector(c) ==
  (IF c.magicOK THEN magic ELSE <<204, 166, 230, 124>>) \o Zeros(4) \o Zeros(20)
    \o BEBytes(c.n, 4) \o Zeros(ptBodyOffset - pthSize) \o PTBody(c)

\* the stream of a scenario: the checksum is the digest of the bytes from
\* 0x800 to the end of the stream as the disc was made ("all"), of its
\* declared records alone ("records"), or of something else ("other"); then
\* the byte at offset flip, if any, is changed and the stream cut to its
\* length
PTStream(c) ==
  LET made == PTSector(c)
      changed == IF c.flip >= 0 THEN [made EXCEPT ![c.flip + 1] = (@ + 1) % 256]
                 ELSE made
  IN  [b |-> SubSeq(changed, 1, c.cut),
       sum |-> CASE c.sum = "all" -> Sha1(SubSeq(made, ptBodyOffset + 1, c.cut))
                 [] c.sum = "records" ->
                      Sha1(SubSeq(made, ptBodyOffset + 1,
                                  Min(c.cut, ptBodyOffset + pteSize * c.n)))
                 [] OTHER -> Sha1(<<1>>)]

\* the offsets of the byte changed: none, the last byte before 0x800, the
\* first byte of the first record, the pad after its name, its offset field,
\* its last byte, the first byte after the records, the last of the sector
FlipAts(tbl) ==
  {-1, ptBodyOffset - 1, ptBodyOffset, ptBodyOffset + pteNameLen,
   ptBodyOffset + pteNameLen + 4, ptBodyOffset + pteSize - 1,
   ptBodyOffset + pteSize * Len(tbl), SectorSize - 1}

PTConfigs ==
  UNION {[tbl : {t}, n : {Len(t)}, flip : FlipAts(t), sum : {"all", "records"},
          cut : {SectorSize}, magicOK : {TRUE}] : t \in Tables}
  \cup
  UNION {[tbl : {t}, n : {0, 1, (SectorSize - ptBodyOffset) \div pteSize,
                          (SectorSize - ptBodyOffset) \div pteSize + 1},
          flip : {-1, SectorSize - 1}, sum : {"all"},
          cut : {SectorSize}, magicOK : {TRUE}] : t \in Tables}
  \cup
  [tbl : Tables, n : {1}, flip : {-1}, sum : {"all", "other"},
   cut : {0, 16, 1024, ptBodyOffset, ptBodyOffset + 64, ptBodyOffset + pteSize},
   magicOK : BOOLEAN]

\* newPartitionTable(r)
NewPartitionTable ==
  /\ dpc = "start"
  /\ LET res == NewPartitionTableOf(PTStream(dcfg))
     IN  /\ wud' = [NoWUD EXCEPT !.pt = res.pt]
         /\ dpc' = IF res.err = Nil THEN "parsed" ELSE "failed"
         /\ dret' = [op |-> "newPartitionTable", err |-> res.err, prefix |-> << >>,
                     name |-> << >>, off |-> Pos(0, 0)]
  /\ UNCHANGED <<dcfg, imgreads, outdir, nfinds>>
  /\ UNCHANGED <<wvars, rvars, svars>>

\* pt.findPartition(prefix)
FindPartition(prefix) ==
  /\ dpc = "parsed"
  /\ nfinds < MaxFinds
  /\ nfinds' = nfinds + 1
  /\ IF Matches(wud.pt, prefix) = {}
     THEN dret' = [op |-> "findPartition", err |-> ErrNoPartition, prefix |-> prefix,
                   name |-> << >>, off |-> Pos(0, 0)]
     ELSE \E k \in Matches(wud.pt, prefix) :
            dret' = [op |-> "findPartition", err |-> Nil, prefix |-> prefix,
                     name |-> k, off |-> wud.pt[k]]
  /\ UNCHANGED <<dcfg, wud, dpc, imgreads, outdir>>
  /\ UNCHANGED <<wvars, rvars, svars>>

\* the prefixes looked up
Prefixes == {GMPrefix(TitleA), GMPrefix(TitleB), NameSI, <<71, 77>>, <<88>>}

WuxIdle ==
  /\ cfg = << >>
  /\ sink = << >>
  /\ w = NoWriter
  /\ wpc = "idle"
  /\ wret = << >>
  /\ fed = 0
  /\ nwrites = 0
  /\ r = NoReader
  /\ rpc = "idle"
  /\ rret = << >>
  /\ nreads = 0

PTInit ==
  /\ dcfg \in PTConfigs
  /\ wud = NoWUD
  /\ dpc = "start"
  /\ dret = [op |-> "none", err |-> Nil, prefix |-> << >>, name |-> << >>,
             off |-> Pos(0, 0)]
  /\ imgreads = << >>
  /\ outdir = << >>
  /\ nfinds = 0
  /\ WuxIdle
  /\ SplitIdle

PTNext ==
  \/ NewPartitionTable
  \/ \E prefix \in Prefixes : FindPartition(prefix)

SpecPT == PTInit /\ [][PTNext]_vars

\* ------------------------------------------------------- the disc and NewWUD

blockSize == 16            \* aes.BlockSize

titleLen == 10

fstMagic == 1179865088     \* 0x46535400, "FST" + 0

fstHeaderSize == 32        \* binary.Size(fh)

feSize == 16               \* unsafe.Sizeof(fe)

tikTidOffset == 476        \* 0x1dc

tmdTidOffset == 396        \* 0x18c

\* 0x50000 as the four big-endian bytes of the uint32 it is compared with
tidWiiU == <<0, 5, 0, 0>>

titleCert == <<116, 105, 116, 108, 101, 46, 99, 101, 114, 116>>

titleTik == <<116, 105, 116, 108, 101, 46, 116, 105, 107>>

titleTmd == <<116, 105, 116, 108, 101, 46, 116, 109, 100>>

ErrWrongSize == "wud: wrong size"

ErrCommonKeySize == "wud: wrong common key size"

ErrGameKeySize == "wud: wrong game key size"

ErrNoSI == "wud: can't find SI partition"

ErrBadRoot == "wud: bad root entry"

\* UncompressedSize, 25025314816 = 763712 * 0x8000
UncompressedSize == Pos(763712, 0)

\* (n + block.BlockSize() - 1) & (-block.BlockSize())
RoundUp(n) == AndNot(n + blockSize - 1, blockSize - 1)

\* The image is not held byte by byte.  It is a list of regions
\* [at, key, iv, data]: data is what the bytes from position at on decrypt
\* to under AES-CBC with key and iv (key << >>: the bytes are stored as they
\* are); the bytes after data, and those of no region, are zero.

Blank == [at |-> Pos(0, 0), key |-> << >>, iv |-> << >>, data |-> << >>]

\* the first n bytes of data followed by zeros
Padded(data, n) == [j \in 1..n |-> IF j <= Len(data) THEN data[j] ELSE 0]

\* what decrypting with a wrong key, or a block after a wrong IV, gives:
\* other bytes
Scramble(bs) == [j \in 1..Len(bs) |-> (bs[j] + 85) % 256]

\* cipher.NewCBCDecrypter(block, iv) over the first n bytes of a region: the
\* plaintext with the right key and IV; with the right key and another IV
\* the first block alone is wrong; with another key every block is
CBCDecrypt(key, iv, reg, n) ==
  IF reg.key # key THEN Scramble(Padded(reg.data, n))
  ELSE IF reg.iv # iv
  THEN Scramble(Padded(reg.data, Min(n, blockSize)))
         \o SubSeq(Padded(reg.data, n), blockSize + 1, n)
  ELSE Padded(reg.data, n)

\* the partition-table sector decrypted with a key
CBCDecryptPT(key, iv, reg) ==
  IF reg.key = key /\ reg.iv = iv /\ reg.data # << >> THEN reg.data
  ELSE [b |-> [j \in 1..SectorSize |-> 85], sum |-> << >>]

\* CryptBlocks over one block, and the encryption it undoes
DecryptBlock(key, iv, x) == [j \in 1..blockSize |-> (x[j] + 512 - key[j] - iv[j]) % 256]

EncryptBlock(key, iv, x) == [j \in 1..blockSize |-> (x[j] + key[j] + iv[j]) % 256]

\* the bytes an io.SectionReader over [pos, pos + n) of an image of the given
\* size can deliver
Avail(size, pos, n) ==
  IF ~PosLess(size, PosAdd(pos, n)) THEN n
  ELSE IF ~PosLess(pos, size) THEN 0
  ELSE (size.s - pos.s) * SectorSize + size.o - pos.o

\* the region that starts at pos
RegionAt(regions, pos) ==
  LET hits == {i \in 1..Len(regions) : regions[i].at = pos}
  IN  IF hits = {} THEN Blank ELSE regions[CHOOSE i \in hits : \A j \in hits : i <= j]

\* uint32 multiplication, fe.Offset*fh.FileOffsetFactor: the operands and
\* the product are four big-endian bytes, the product reduced modulo 2^32
Mul32(a, b) ==
  LET d0 == a[4] * b[4]
      d1 == a[4] * b[3] + a[3] * b[4] + d0 \div 256
      d2 == a[4] * b[2] + a[3] * b[3] + a[2] * b[4] + d1 \div 256
      d3 == a[4] * b[1] + a[3] * b[2] + a[2] * b[3] + a[1] * b[4] + d2 \div 256
  IN  <<d3 % 256, d2 % 256, d1 % 256, d0 % 256>>

\* si + 2*int64(SectorSize) + int64(p), p a uint32 as four bytes
FileOffset(si, p) ==
  PosAdd(Pos(si.s + 2 + 2 * FromBE(SubSeq(p, 1, 2)), 0), FromBE(SubSeq(p, 3, 4)))

\* binary.BigEndian.PutUint64(f.iv[8:], uint64(p >> 16)) on a zero IV
FileIV(p) == Zeros(8) \o Zeros(6) \o SubSeq(p, 1, 2)

\* file.reader(r, block) read to its end: the section
\* [f.offset, f.offset + RoundUp(f.size)) of the image decrypted with f.iv and
\* cut to f.size bytes by the io.LimitReader
FileReader(regions, size, key, f) ==
  LET n == Avail(size, f.offset, RoundUp(f.size))
      whole == n - (n % blockSize)
  IN  SubSeq(CBCDecrypt(key, f.iv, RegionAt(regions, f.offset), whole),
             1, Min(f.size, whole))

\* io.ReadFull's error for want bytes out of a stream with have left
ShortErr(have, want) ==
  IF have >= want THEN Nil ELSE IF have = 0 THEN EOF ELSE ErrUnexpectedEOF

\* bufio.NewReader(br).ReadBytes(0) from offset at of b: the offset of the
\* first NUL at or after at, -1 when there is none
RECURSIVE NulAt(_, _)
NulAt(b, at) ==
  IF at >= Len(b) THEN -1 ELSE IF b[at + 1] = 0 THEN at ELSE NulAt(b, at + 1)

\* offsets := map[string]int64{titleTik: 0x1dc, titleTmd: 0x18c}
TidOffset(filename) == IF filename = titleTik THEN tikTidOffset ELSE tmdTidOffset

\* if tid != 0x50000 { continue }, left out
TidAny(tid) == TRUE

TidOK(tid) == tid = tidWiiU

\* if _, ok = w.files[filename]; ok { continue }, with the test left out
SeenNever(files, filename) == FALSE

\* if _, ok = w.files[filename]; ok
Seen(files, filename) == filename \in DOMAIN files

\* the loop of NewWUD over the records i .. entries-1 of the FST held in b
\* (the bytes of the sector after the secondary headers): the error, the file
\* table and the reads made of the image
RECURSIVE WalkFST(_, _, _, _, _, _, _)
WalkFST(img, key, b, hd, i, files, reads) ==
  IF i >= hd.entries THEN [err |-> Nil, files |-> files, reads |-> reads]
  ELSE IF ShortErr(Len(b) - feSize * i, feSize) # Nil
  THEN [err |-> ShortErr(Len(b) - feSize * i, feSize), files |-> files, reads |-> reads]
  ELSE
    LET fe == SubSeq(b, feSize * i + 1, feSize * (i + 1))
        nul == NulAt(b, hd.nameTableOffset + FromBE(SubSeq(fe, 2, 4)))
        filename == SubSeq(b, hd.nameTableOffset + FromBE(SubSeq(fe, 2, 4)) + 1, nul)
        p == Mul32(SubSeq(fe, 5, 8), hd.factor)
        f == [iv |-> FileIV(p), offset |-> FileOffset(hd.si, p),
              size |-> FromBE(SubSeq(fe, 9, 12))]
        lr == FileReader(img.regions, img.size, key, f)
        reads1 == Append(reads, [at |-> f.offset, n |-> RoundUp(f.size)])
    IN  IF fe[1] # 0 THEN WalkFST(img, key, b, hd, i + 1, files, reads)
        ELSE IF nul < 0 THEN [err |-> EOF, files |-> files, reads |-> reads]
        ELSE IF Seen(files, filename)
        THEN WalkFST(img, key, b, hd, i + 1, files, reads)
        ELSE IF filename = titleCert
        THEN WalkFST(img, key, b, hd, i + 1, MapPut(files, titleCert, f), reads)
        ELSE IF filename \notin {titleTik, titleTmd}
        THEN WalkFST(img, key, b, hd, i + 1, files, reads)
        ELSE IF Len(lr) < TidOffset(filename)
        THEN [err |-> EOF, files |-> files, reads |-> reads1]
        ELSE IF ShortErr(Len(lr) - TidOffset(filename), 4) # Nil
        THEN [err |-> ShortErr(Len(lr) - TidOffset(filename), 4),
              files |-> files, reads |-> reads1]
        ELSE IF ~TidOK(SubSeq(lr, TidOffset(filename) + 1, TidOffset(filename) + 4))
        THEN WalkFST(img, key, b, hd, i + 1, files, reads1)
        ELSE WalkFST(img, key, b, hd, i + 1, MapPut(files, filename, f), reads1)

\* NewWUD from the title on: the image img = [regions, size] is read
NewWUDRead(img, commonKey, gameKey) ==
  LET rd0 == <<[at |-> Pos(0, 0), n |-> titleLen]>>
      title == Padded(RegionAt(img.regions, Pos(0, 0)).data, titleLen)
      rd1 == Append(rd0, [at |-> Pos(3, 0), n |-> SectorSize])
      ptr == NewPartitionTableOf(
               CBCDecryptPT(gameKey, Zeros(blockSize), RegionAt(img.regions, Pos(3, 0))))
      Fail(e, rd) == [err |-> e, wud |-> NoWUD, reads |-> rd]
  IN  IF ptr.err # Nil THEN Fail(ptr.err, rd1)
      ELSE IF NameSI \notin DOMAIN ptr.pt THEN Fail(ErrNoSI, rd1)
      ELSE
        LET si == ptr.pt[NameSI]
            at == PosAdd(si, SectorSize)
            rd2 == Append(rd1, [at |-> at, n |-> SectorSize])
            have == Avail(img.size, at, SectorSize)
            sec == CBCDecrypt(gameKey, Zeros(blockSize), RegionAt(img.regions, at), have)
            shc == FromBE(SubSeq(sec, 9, 12))
            b == SubSeq(sec, fstHeaderSize + 32 * shc + 1, Len(sec))
            hd == [si |-> si, factor |-> SubSeq(sec, 5, 8),
                   entries |-> FromBE(SubSeq(b, 9, 12)),
                   nameTableOffset |-> FromBE(SubSeq(b, 9, 12)) * feSize]
        IN  IF ShortErr(have, fstHeaderSize) # Nil
            THEN Fail(ShortErr(have, fstHeaderSize), rd2)
            ELSE IF FromBE(SubSeq(sec, 1, 4)) # fstMagic THEN Fail(ErrBadPTMagic, rd2)
            ELSE IF have - fstHeaderSize < 32 * shc THEN Fail(EOF, rd2)
            ELSE IF ShortErr(Len(b), feSize) # Nil THEN Fail(ShortErr(Len(b), feSize), rd2)
            ELSE IF b[1] # 1 \/ FromBE(SubSeq(b, 2, 4)) # 0 THEN Fail(ErrBadRoot, rd2)
            ELSE LET wk == WalkFST(img, gameKey, b, hd, 1, << >>, rd2)
                 IN  IF wk.err # Nil THEN Fail(wk.err, wk.reads)
                     ELSE [err |-> Nil,
                           wud |-> [title |-> title, pt |-> ptr.pt, files |-> wk.files,
                                   common |-> commonKey, game |-> gameKey],
                           reads |-> wk.reads]

\* NewWUD with the title read ahead of the checks of its arguments
NewWUDReadFirst(img, commonKey, gameKey) ==
  IF img.size # UncompressedSize \/ Len(commonKey) # keySize \/ Len(gameKey) # keySize
  THEN [err |-> ErrWrongSize, wud |-> NoWUD,
        reads |-> <<[at |-> Pos(0, 0), n |-> titleLen]>>]
  ELSE NewWUDRead(img, commonKey, gameKey)

\* NewWUD(r, commonKey, gameKey): the error, the WUD and the reads made
NewWUDOf(img, commonKey, gameKey) ==
  IF img.size # UncompressedSize
  THEN [err |-> ErrWrongSize, wud |-> NoWUD, reads |-> << >>]
  ELSE IF Len(commonKey) # keySize
  THEN [err |-> ErrCommonKeySize, wud |-> NoWUD, reads |-> << >>]
  ELSE IF Len(gameKey) # keySize
  THEN [err |-> ErrGameKeySize, wud |-> NoWUD, reads |-> << >>]
  ELSE NewWUDRead(img, commonKey, gameKey)

\* ------------------------------------------------------------------ Extract

tmdSize == 2820            \* binary.Size(tmd), 0xb04

tmdCountOffset == 478      \* 0x1de, tmd.ContentCount

contentSize == 48          \* binary.Size of a content record

appSize == 32              \* binary.Size of an app record

appSkip == 32              \* 0x20

gmSkip == 16               \* 0x10

gmPad == 44                \* 0x2c

tikKeyOffset == 447        \* 0x1bf

h3Span == 268435456        \* 0x10000000

h3HashSize == 20

ErrNotFound == "wud: file not found"

ErrCreate == "create failed"

\* fmt.Sprintf("%08x", id), id as its four big-endian bytes
HexLowerDigit(d) == IF d < 10 THEN 48 + d ELSE 87 + d

RECURSIVE HexLower(_)
HexLower(bs) ==
  IF bs = << >> THEN << >>
  ELSE <<HexLowerDigit(bs[1] \div 16), HexLowerDigit(bs[1] % 16)>> \o HexLower(Tail(bs))

\* fmt.Sprintf("%08x.app", id) and fmt.Sprintf("%08x.h3", id)
AppName(id) == HexLower(id) \o <<46, 97, 112, 112>>

H3Name(id) == HexLower(id) \o <<46, 104, 51>>

\* A file of the output directory: its name, its length, and where its bytes
\* come from: the image at position at, decrypted (dec) or as stored.
OutFile(name, len, at, dec) == [name |-> name, len |-> len, at |-> at, dec |-> dec]

\* the name findPartition returns when it returns none
NoName == << >>

\* the bytes of a region as they are stored
RawRead(reg, n) ==
  IF reg.key = << >> THEN Padded(reg.data, n) ELSE Scramble(Padded(reg.data, n))

\* the i-th content record of the TMD (i from 0), its fields
ContentRec(x, i) ==
  LET rec == SubSeq(x.contents, contentSize * i + 1, contentSize * (i + 1))
  IN  [id |-> SubSeq(rec, 1, 4), index |-> SubSeq(rec, 5, 6),
       type |-> FromBE(SubSeq(rec, 7, 8)), size |-> FromBE(SubSeq(rec, 9, 16))]

\* app[i].Offset
AppOffset(x, i) == FromBE(SubSeq(x.apps, appSkip + appSize * i + 1, appSkip + appSize * i + 4))

\* int64(20*(contents[i].Size/0x10000000+1)), with the + 1 left out
H3LenFloor(size) == h3HashSize * (size \div h3Span)

\* int64(20*(contents[i].Size/0x10000000+1))
H3Len(size) == h3HashSize * (size \div h3Span + 1)

\* int64((int(contents[0].Size)+tik.BlockSize()-1)&(-tik.BlockSize())), with
\* the rounding left out
App0LenExact(size) == size

App0Len(size) == RoundUp(size)

\* if contents[i].Type&0x2 != 0
HasH3(type) == (type \div 2) % 2 = 1

\* the result of Extract: the error, the files created in order, whether it
\* panicked, and the names findPartition could return on the way
Ret(e, out) == [err |-> e, out |-> out, fault |-> FALSE, want |-> {NoName}]

\* the end of Extract with title.cert taken as optional
ExtractCertOptional(x, out) ==
  IF titleCert \notin DOMAIN x.wd.files THEN Ret(Nil, out)
  ELSE IF x.fc = Len(out) + 1 THEN Ret(ErrCreate, out)
  ELSE LET f == x.wd.files[titleCert]
           p == FileReader(x.img.regions, x.img.size, x.wd.game, f)
       IN  Ret(Nil, Append(out, OutFile(titleCert, Len(p), f.offset, TRUE)))

\* the end of Extract: title.cert
ExtractCert(x, out) ==
  IF titleCert \notin DOMAIN x.wd.files THEN Ret(ErrNotFound, out)
  ELSE IF x.fc = Len(out) + 1 THEN Ret(ErrCreate, out)
  ELSE LET f == x.wd.files[titleCert]
           p == FileReader(x.img.regions, x.img.size, x.wd.game, f)
       IN  Ret(Nil, Append(out, OutFile(titleCert, Len(p), f.offset, TRUE)))

\* the loop of Extract over the contents i .. ContentCount-1; cursor is the
\* offset of sr, the hash stream, in the first sector of the GM partition
RECURSIVE ExtractLoop(_, _, _, _)
ExtractLoop(x, i, out, cursor) ==
  IF i >= x.count THEN ExtractCert(x, out)
  ELSE IF x.fc = Len(out) + 1 THEN Ret(ErrCreate, out)
  ELSE
    LET c == ContentRec(x, i)
        at == Pos(x.gm.s + AppOffset(x, i), x.gm.o)
        out1 == Append(out, OutFile(AppName(c.id), Avail(x.img.size, at, c.size),
                                    at, FALSE))
        have == x.availGM - cursor
        h3 == OutFile(H3Name(c.id), Min(have, H3Len(c.size)), PosAdd(x.gm, cursor), FALSE)
    IN  IF ~HasH3(c.type) THEN ExtractLoop(x, i + 1, out1, cursor)
        ELSE IF x.fc = Len(out1) + 1 THEN Ret(ErrCreate, out1)
        ELSE IF have < H3Len(c.size) THEN Ret(EOF, Append(out1, h3))
        ELSE ExtractLoop(x, i + 1, Append(out1, h3), cursor + H3Len(c.size))

\* Extract from title.tik to the app records of content 0
ExtractTik(x, out, cursor) ==
  IF titleTik \notin DOMAIN x.wd.files THEN Ret(ErrNotFound, out)
  ELSE IF x.fc = Len(out) + 1 THEN Ret(ErrCreate, out)
  ELSE
    LET f == x.wd.files[titleTik]
        p == FileReader(x.img.regions, x.img.size, x.wd.game, f)
        out1 == Append(out, OutFile(titleTik, Len(p), f.offset, TRUE))
        key == DecryptBlock(x.wd.common,
                            SubSeq(p, tikTidOffset + 1, tikTidOffset + 8) \o Zeros(8),
                            SubSeq(p, tikKeyOffset + 1, tikKeyOffset + keySize))
        c0 == ContentRec(x, 0)
        at == PosAdd(x.gm, SectorSize)
        have == Avail(x.img.size, at, App0Len(c0.size))
        out2 == Append(out1, OutFile(AppName(c0.id), have, at, FALSE))
        apps == CBCDecrypt(key, c0.index \o Zeros(blockSize - 2),
                           RegionAt(x.img.regions, at), have)
    IN  IF Len(p) < tikKeyOffset THEN Ret(EOF, out1)
        ELSE IF ShortErr(Len(p) - tikKeyOffset, keySize) # Nil
        THEN Ret(ShortErr(Len(p) - tikKeyOffset, keySize), out1)
        ELSE IF Len(p) < tikTidOffset THEN Ret(EOF, out1)
        ELSE IF ShortErr(Len(p) - tikTidOffset, 8) # Nil
        THEN Ret(ShortErr(Len(p) - tikTidOffset, 8), out1)
        ELSE IF x.count = 0
        THEN \* contents[0]: index out of range
             [err |-> "panic", out |-> out1, fault |-> TRUE, want |-> {NoName}]
        ELSE IF x.fc = Len(out1) + 1 THEN Ret(ErrCreate, out1)
        ELSE IF have < appSkip THEN Ret(EOF, out2)
        ELSE IF ShortErr(have - appSkip, appSize * x.count) # Nil
        THEN Ret(ShortErr(have - appSkip, appSize * x.count), out2)
        ELSE ExtractLoop([x EXCEPT !.apps = apps], 1, out2, cursor)

\* Extract from the partition lookup to the first hash: gm is the offset
\* findPartition returned
ExtractGM(x, out) ==
  LET have == Avail(x.img.size, x.gm, SectorSize)
      sec == RawRead(RegionAt(x.img.regions, x.gm), Min(have, gmSkip + 4))
      headerCount == FromBE(SubSeq(sec, gmSkip + 1, gmSkip + 4))
      first == gmSkip + 4 + gmPad + headerCount * 4
  IN  IF have < gmSkip THEN Ret(EOF, out)
      ELSE IF ShortErr(have - gmSkip, 4) # Nil THEN Ret(ShortErr(have - gmSkip, 4), out)
      ELSE IF have < first THEN Ret(EOF, out)
      ELSE ExtractTik([x EXCEPT !.availGM = have], out, first)

\* w.Extract(directory) over the image img: k is the name findPartition
\* stops at, fc the fs.Create call that fails (0: none)
ExtractOf(img, wd, k, fc) ==
  IF titleTmd \notin DOMAIN wd.files THEN Ret(ErrNotFound, << >>)
  ELSE IF fc = 1 THEN Ret(ErrCreate, << >>)
  ELSE
    LET f == wd.files[titleTmd]
        p == FileReader(img.regions, img.size, wd.game, f)
        out == <<OutFile(titleTmd, Len(p), f.offset, TRUE)>>
        count == FromBE(SubSeq(p, tmdCountOffset + 1, tmdCountOffset + 2))
        names == Matches(wd.pt, GMPrefix(SubSeq(p, tmdTidOffset + 1, tmdTidOffset + 8)))
        x == [img |-> img, wd |-> wd, fc |-> fc, count |-> count,
              contents |-> SubSeq(p, tmdSize + 1, tmdSize + contentSize * count),
              gm |-> IF k \in DOMAIN wd.pt THEN wd.pt[k] ELSE Pos(0, 0),
              availGM |-> 0, apps |-> << >>]
    IN  IF ShortErr(Len(p), tmdSize) # Nil THEN Ret(ShortErr(Len(p), tmdSize), out)
        ELSE IF ShortErr(Len(p) - tmdSize, contentSize * count) # Nil
        THEN Ret(ShortErr(Len(p) - tmdSize, contentSize * count), out)
        ELSE IF names = {} THEN Ret(ErrNoPartition, out)
        ELSE IF k \notin names THEN [Ret(Nil, out) EXCEPT !.want = names]
        ELSE [ExtractGM(x, out) EXCEPT !.want = names]

\* ---- the discs tried

GameKey == [j \in 1..keySize |-> 7]

CommonKey == [j \in 1..keySize |-> 3]

TitleKey == [j \in 1..keySize |-> 40 + j]

\* the keys given to NewWUD: the right one, another of 16 bytes, of 15 and of
\* 17 bytes, none
KeysOf(key) ==
  {key, [j \in 1..keySize |-> 9], SubSeq(key, 1, keySize - 1), key \o <<1>>, << >>}

\* an FST record: its type, name, offset (in units of fileOffsetFactor) and
\* size, and the word its content holds at the title-ID offset
FE(type, name, off, size, word) ==
  [type |-> type, name |-> name, off |-> off, size |-> size, word |-> word]

OtherWord == <<0, 1, 35, 69>>   \* 0x12345

BootBin == <<98, 111, 111, 116>>

\* a content of the TMD: id, index, type, size, and the offset (in sectors,
\* from the GM partition) its app record gives
Content(id, index, type, size, off) ==
  [id |-> id, index |-> index, type |-> type, size |-> size, off |-> off]

\* the sector, in the table of a scenario, of the first partition whose name
\* has the prefix; dflt when there is none
SectorOf(tbl, prefix, dflt) ==
  LET hits == {i \in 1..Len(tbl) : HasPrefix(tbl[i].name, prefix)}
  IN  IF hits = {} THEN dflt ELSE tbl[CHOOSE i \in hits : \A j \in hits : i <= j].off

\* the offset of the name of record i in the name table: the root's empty
\* name, then the names in order, each ended by a NUL
RECURSIVE NameOffset(_, _)
NameOffset(entries, i) ==
  IF i = 1 THEN 1 ELSE NameOffset(entries, i - 1) + Len(entries[i - 1].name) + 1

RECURSIVE FSTRecords(_, _)
FSTRecords(entries, i) ==
  IF i > Len(entries) THEN << >>
  ELSE <<entries[i].type>> \o BEBytes(NameOffset(entries, i), 3)
         \o BEBytes(entries[i].off, 4) \o BEBytes(entries[i].size, 4) \o Zeros(4)
         \o FSTRecords(entries, i + 1)

RECURSIVE FSTNames(_)
FSTNames(entries) ==
  IF entries = << >> THEN << >>
  ELSE entries[1].name \o <<0>> \o FSTNames(Tail(entries))

\* the plaintext of the FST sector
FSTPlain(c) ==
  BEBytes(IF c.fstMagicOK THEN fstMagic ELSE fstMagic + 1, 4) \o BEBytes(c.factor, 4)
    \o BEBytes(c.shc, 4) \o Zeros(20) \o Zeros(32 * c.shc)
    \o <<IF c.rootOK THEN 1 ELSE 0>> \o Zeros(3) \o Zeros(4)
    \o BEBytes(Len(c.entries) + 1, 4) \o Zeros(4)
    \o FSTRecords(c.entries, 1) \o <<0>> \o FSTNames(c.entries)

RECURSIVE ContentRecords(_)
ContentRecords(cs) ==
  IF cs = << >> THEN << >>
  ELSE cs[1].id \o BEBytes(cs[1].index, 2) \o BEBytes(cs[1].type, 2)
         \o BEBytes(cs[1].size, 8) \o Zeros(32) \o ContentRecords(Tail(cs))

RECURSIVE AppRecords(_)
AppRecords(cs) ==
  IF cs = << >> THEN << >>
  ELSE BEBytes(cs[1].off, 4) \o Zeros(appSize - 4) \o AppRecords(Tail(cs))

\* the plaintext of a file of the SI partition
FilePlain(c, e) ==
  CASE e.name = titleTmd ->
         Zeros(tmdTidOffset) \o e.word \o SubSeq(TitleA, 5, 8)
           \o Zeros(tmdCountOffset - tmdTidOffset - 8) \o BEBytes(Len(c.contents), 2)
           \o Zeros(tmdSize - tmdCountOffset - 2) \o ContentRecords(c.contents)
    [] e.name = titleTik ->
         Zeros(tikKeyOffset)
           \o EncryptBlock(CommonKey, e.word \o SubSeq(TitleA, 5, 8) \o Zeros(8), TitleKey)
           \o Zeros(tikTidOffset - tikKeyOffset - keySize)
           \o e.word \o SubSeq(TitleA, 5, 8)
    [] OTHER -> <<67, 69, 82, 84>>

\* the regions of the files: record i of the FST lies where the walk of the
\* FST will look for it
RECURSIVE FileRegions(_, _)
FileRegions(c, i) ==
  IF i > Len(c.entries) THEN << >>
  ELSE LET e == c.entries[i]
           p == Mul32(BEBytes(e.off, 4), BEBytes(c.factor, 4))
       IN  (IF e.type # 0 \/ e.word = << >> THEN << >>
            ELSE <<[at |-> FileOffset(Pos(SectorOf(c.tbl, NameSI, 4), 0), p),
                    key |-> GameKey, iv |-> FileIV(p),
                    data |-> Padded(FilePlain(c, e), e.size)]>>)
           \o FileRegions(c, i + 1)

\* the image of a scenario
Image(c) ==
  [size |-> c.size,
   regions |->
     <<[at |-> Pos(0, 0), key |-> << >>, iv |-> << >>,
        data |-> <<87, 85, 80, 45, 80, 45, 65, 66, 67, 69>>],
       [at |-> Pos(3, 0), key |-> GameKey, iv |-> Zeros(blockSize),
        data |-> PTStream([tbl |-> c.tbl, n |-> Len(c.tbl), flip |-> c.flip,
                           sum |-> "all", cut |-> SectorSize, magicOK |-> TRUE])],
       [at |-> Pos(SectorOf(c.tbl, NameSI, 4) + 1, 0), key |-> GameKey,
        iv |-> Zeros(blockSize), data |-> FSTPlain(c)]>>
     \o FileRegions(c, 1)
     \o <<[at |-> Pos(SectorOf(c.tbl, <<71, 77>>, 16), 0), key |-> << >>, iv |-> << >>,
           data |-> Zeros(gmSkip) \o BEBytes(c.hc, 4)]>>
     \o (IF c.contents = << >> THEN << >>
         ELSE <<[at |-> Pos(SectorOf(c.tbl, <<71, 77>>, 16) + 1, 0), key |-> TitleKey,
                 iv |-> BEBytes(c.contents[1].index, 2) \o Zeros(blockSize - 2),
                 data |-> Zeros(appSkip) \o AppRecords(c.contents)]>>)]

\* the files of the SI partition: the three title files
StdEntries ==
  <<FE(0, titleTmd, 0, tmdSize + 3 * contentSize, tidWiiU),
    FE(0, titleTik, 256, 848, tidWiiU),
    FE(0, titleCert, 4096, 4, tidWiiU)>>

\* title.cert at 65538 units from the start of the files: with a factor of
\* 0x10000 that is 2^32 + 0x20000 bytes
FarEntries ==
  <<StdEntries[1], [StdEntries[2] EXCEPT !.off = 1], FE(0, titleCert, 65538, 4, << >>)>>

EntryLists ==
  { StdEntries,
    \* a directory, title.tmd of another console then the Wii-U one, a file of
    \* another name, title.cert twice
    <<FE(1, BootBin, 0, 5, tidWiiU),
      FE(0, titleTmd, 512, tmdSize + 3 * contentSize, OtherWord),
      FE(0, titleTmd, 0, tmdSize + 3 * contentSize, tidWiiU),
      FE(0, BootBin, 768, 600, tidWiiU),
      FE(0, titleTik, 256, 848, tidWiiU),
      FE(0, titleCert, 4096, 4, tidWiiU),
      FE(0, titleCert, 4608, 4, tidWiiU)>>,
    \* title.tik of another console: no title.tik recorded
    <<FE(0, titleTmd, 0, tmdSize + 3 * contentSize, tidWiiU),
      FE(0, titleTik, 256, 848, OtherWord),
      FE(0, titleCert, 4096, 4, tidWiiU)>>,
    \* title.tmd of another console: no title.tmd recorded
    <<FE(0, titleTmd, 0, tmdSize + 3 * contentSize, OtherWord),
      FE(0, titleTik, 256, 848, tidWiiU),
      FE(0, titleCert, 4096, 4, tidWiiU)>>,
    \* no title.cert
    <<FE(0, titleTmd, 0, tmdSize + 3 * contentSize, tidWiiU),
      FE(0, titleTik, 256, 848, tidWiiU)>>,
    \* title.cert with nothing stored where its record points
    <<FE(0, titleTmd, 0, tmdSize + 3 * contentSize, tidWiiU),
      FE(0, titleTik, 256, 848, tidWiiU),
      FE(0, titleCert, 4096, 4, << >>)>>,
    \* title.tik that ends before its title-ID word, and inside it
    <<FE(0, titleTmd, 0, tmdSize + 3 * contentSize, tidWiiU),
      FE(0, titleTik, 256, tikTidOffset - 1, tidWiiU),
      FE(0, titleCert, 4096, 4, tidWiiU)>>,
    <<FE(0, titleTmd, 0, tmdSize + 3 * contentSize, tidWiiU),
      FE(0, titleTik, 256, tikTidOffset + 2, tidWiiU),
      FE(0, titleCert, 4096, 4, tidWiiU)>>,
    \* title.tik that ends inside the title ID, title.tmd inside its contents
    <<FE(0, titleTmd, 0, tmdSize + 3 * contentSize, tidWiiU),
      FE(0, titleTik, 256, tikTidOffset + 4, tidWiiU),
      FE(0, titleCert, 4096, 4, tidWiiU)>>,
    <<FE(0, titleTmd, 0, tmdSize + 1, tidWiiU),
      FE(0, titleTik, 256, 848, tidWiiU),
      FE(0, titleCert, 4096, 4, tidWiiU)>> }

Id(k) == <<0, 0, 0, k>>

\* the contents of the title
ContentLists ==
  { << >>,
    <<Content(Id(1), 0, 0, 128, 0)>>,
    <<Content(Id(1), 0, 0, 128, 0), Content(Id(2), 1, 2, 64, 2)>>,
    <<Content(Id(1), 0, 0, 100, 0), Content(Id(2), 1, 3, 64, 2)>>,
    <<Content(Id(10), 7, 0, 144, 0), Content(Id(11), 1, 2, h3Span - 1, 3),
      Content(Id(12), 2, 8194, h3Span, 4)>>,
    <<Content(Id(1), 0, 0, 130, 0), Content(Id(171), 1, 1, 70000, 2),
      Content(Id(3), 2, 2, 2 * h3Span + 5, 5)>>,
    \* contents that lie across, and past, the end of the image
    <<Content(Id(1), 0, 0, 128, 0), Content(Id(2), 1, 0, SectorSize + 1, 763695),
      Content(Id(3), 2, 2, 64, 763696)>>,
    \* content 0 too short for its app records
    <<Content(Id(1), 0, 0, 40, 0), Content(Id(2), 1, 2, 64, 2)>> }

StdDisc ==
  [size |-> UncompressedSize, commonKey |-> CommonKey, gameKey |-> GameKey,
   tbl |-> <<PTEntry(NameSI, 4), PTEntry(GMPrefix(TitleA), 16)>>, flip |-> -1,
   fstMagicOK |-> TRUE, rootOK |-> TRUE, factor |-> 32, shc |-> 0,
   entries |-> StdEntries,
   contents |-> <<Content(Id(1), 0, 0, 128, 0), Content(Id(2), 1, 2, 64, 2)>>,
   hc |-> 0, fc |-> 0]

\* the header counts of the GM partition: the hashes start at 0x40, at 0x44,
\* 24 bytes and 10 bytes before the end of the sector, and past it
HeaderCounts == {0, 1, 8170, 8173, 8176}

DiscConfigs ==
  {[StdDisc EXCEPT !.size = s, !.commonKey = ck, !.gameKey = gk] :
     s \in {UncompressedSize, Pos(763711, SectorSize - 1), Pos(763712, 1), Pos(0, 0)},
     ck \in KeysOf(CommonKey), gk \in KeysOf(GameKey)}
  \cup {[StdDisc EXCEPT !.tbl = t, !.flip = f] : t \in Tables, f \in {-1, SectorSize - 1}}
  \cup {[StdDisc EXCEPT !.entries = es, !.shc = n, !.fc = k] :
          es \in EntryLists, n \in {0, 2}, k \in {0}}
  \cup {[StdDisc EXCEPT !.factor = f, !.entries = es] :
          f \in {32, 65536}, es \in {FarEntries}}
  \cup {[StdDisc EXCEPT !.fstMagicOK = m, !.rootOK = ro, !.shc = n] :
          m \in BOOLEAN, ro \in BOOLEAN, n \in {0, 1022, 1023, 1024}}
  \cup {[StdDisc EXCEPT !.contents = cs, !.hc = h, !.entries[1].size = tmdSize + contentSize * Len(cs)] :
          cs \in ContentLists, h \in HeaderCounts}
  \cup {[StdDisc EXCEPT !.contents = cs, !.fc = k, !.entries[1].size = tmdSize + contentSize * Len(cs)] :
          cs \in ContentLists, k \in 0..7}

\* wud.NewWUD(r, commonKey, gameKey)
NewWUD ==
  /\ dpc = "start"
  /\ LET res == NewWUDOf(Image(dcfg), dcfg.commonKey, dcfg.gameKey)
     IN  /\ wud' = res.wud
         /\ imgreads' = res.reads
         /\ dpc' = IF res.err = Nil THEN "parsed" ELSE "failed"
         /\ dret' = [op |-> "NewWUD", err |-> res.err, prefix |-> << >>,
                     name |-> << >>, off |-> Pos(0, 0)]
  /\ UNCHANGED <<dcfg, outdir, nfinds>>
  /\ UNCHANGED <<wvars, rvars, svars>>

\* w.Extract(directory); k is the partition findPartition returns
Extract(k) ==
  /\ dpc = "parsed"
  /\ LET res == ExtractOf(Image(dcfg), wud, k, dcfg.fc)
     IN  /\ k \in res.want
         /\ outdir' = res.out
         /\ dpc' = IF res.fault THEN "fault"
                   ELSE IF res.err = Nil THEN "extracted" ELSE "failed"
         /\ dret' = [op |-> "Extract", err |-> res.err, prefix |-> << >>,
                     name |-> k, off |-> Pos(0, 0)]
  /\ UNCHANGED <<dcfg, wud, imgreads, nfinds>>
  /\ UNCHANGED <<wvars, rvars, svars>>

DiscInit ==
  /\ dcfg \in DiscConfigs
  /\ wud = NoWUD
  /\ dpc = "start"
  /\ dret = [op |-> "none", err |-> Nil, prefix |-> << >>, name |-> << >>,
             off |-> Pos(0, 0)]
  /\ imgreads = << >>
  /\ outdir = << >>
  /\ nfinds = 0
  /\ WuxIdle
  /\ SplitIdle

DiscNext ==
  \/ NewWUD
  \/ \E k \in DOMAIN wud.pt \cup {NoName} : Extract(k)

SpecDisc == DiscInit /\ [][DiscNext]_vars

\* ----------------------------------------------------------------- claims

\* C1: round trip.  Once Close has succeeded, NewReader over the file the
\* writer produced succeeds, Size() is the number of bytes written, and every
\* ReadAt and every sequential Read returns the bytes of the input at the
\* offset read, for both sector sizes and every chunking into Write calls.
C1_RoundTrip ==
  /\ rret.op = "NewReader" =>
       /\ rret.err = Nil
       /\ r.limit = fed
       /\ r.limit = cfg.uncompressedSize
  /\ (rret.op \in {"ReadAt", "Read"} /\ rret.off >= 0) =>
       /\ rret.p = Input(rret.off,
                         IF rret.off >= fed THEN 0 ELSE Min(rret.n, fed - rret.off))
       /\ rret.err \in {Nil, EOF}

\* a read that crosses from one sector into the next of an image whose two
\* sectors were deduplicated into one, written in two or more chunks
C1_Witness ==
  /\ rret.op = "ReadAt"
  /\ rret.off = r.sectorSize - 1
  /\ Len(rret.p) = r.sectorSize + 1
  /\ w.unique = 1
  /\ w.sector = 2
  /\ nwrites >= 2

\* C3: a Close with no latched error succeeds only if the bytes written total
\* uncompressedSize and the buffer is empty; if fewer were written, or a
\* partial sector is buffered, it returns an error and leaves the sink alone.
C3_CloseTotal ==
  [][(wpc = "open" /\ wpc' = "closed" /\ w.err = Nil) =>
       /\ wret'.err = Nil => (fed = cfg.uncompressedSize /\ Len(w.b) = 0)
       /\ (fed < cfg.uncompressedSize \/ Len(w.b) # 0) =>
            (wret'.err # Nil /\ sink' = sink)]_vars

\* Close rejected with the declared total reached but a partial sector left
C3_Witness ==
  /\ wret.op = "Close"
  /\ wret.err = ErrNotEnough
  /\ w.err = Nil
  /\ fed = cfg.uncompressedSize
  /\ Len(w.b) = 1

\* C4: once more bytes than uncompressedSize have been passed to Write, no
\* Write panics and a Close returns an error.
C4_OverLongReported ==
  fed > cfg.uncompressedSize =>
    /\ wpc # "fault"
    /\ wpc = "closed" => wret.err # Nil

\* C5: a failed sink write latches its error; from then on every Write
\* returns that error, accepts no byte and changes neither the sink nor the
\* writer, and Close returns that error and leaves the sink alone.
C5_Sticky ==
  [][/\ (wpc = "open" /\ w.err = Nil /\ wret'.op = "Write" /\ wret'.err \in SinkErrs) =>
          w'.err = wret'.err
     /\ (wpc = "open" /\ w.err # Nil) =>
          /\ w.err \in SinkErrs
          /\ wret'.err = w.err
          /\ wret'.n = 0
          /\ sink' = sink
          /\ w' = w]_vars

\* a Write turned away by a latched error, more bytes passed than accepted
C5_Witness ==
  /\ wret.op = "Write"
  /\ wret.n = 0
  /\ wret.err = "ENOSPC"
  /\ w.err = "ENOSPC"
  /\ fed > w.off

\* C6: NewReader returns ErrBadMagic exactly when the file holds a whole
\* 32-byte header and one of its two magic words is not the constant,
\* whatever the sector size; its other errors are different values.
C6_BadMagic ==
  rret.op = "NewReader" =>
    (rret.err = ErrBadMagic <=>
       (cfg.cut >= headerSize /\ (cfg.m0 # magic0 \/ cfg.m1 # magic1)))

\* a bad magic word reported for a header whose sector size is out of range
C6_Witness ==
  /\ rret.op = "NewReader"
  /\ rret.err = ErrBadMagic
  /\ cfg.m0 = magic0
  /\ cfg.m1 # magic1
  /\ cfg.sectorSize = 255

\* C7: ReadAt at or past the image size returns no byte and io.EOF; a request
\* that starts inside and ends past it returns the bytes up to the image
\* size and io.EOF; a request inside the image returns all its bytes and no
\* error.
C7_ReadAtEOF ==
  (rret.op = "ReadAt" /\ rret.off >= 0) =>
    /\ rret.off >= r.limit => (Len(rret.p) = 0 /\ rret.err = EOF)
    /\ (rret.off < r.limit /\ rret.off + rret.n > r.limit) =>
         (Len(rret.p) = r.limit - rret.off /\ rret.err = EOF)
    /\ (rret.off < r.limit /\ rret.off + rret.n <= r.limit) =>
         (Len(rret.p) = rret.n /\ rret.err = Nil)

\* a request that starts inside the image and is cut at its end
C7_Witness ==
  /\ rret.op = "ReadAt"
  /\ rret.off > 0
  /\ rret.off < r.limit
  /\ rret.off + rret.n > r.limit
  /\ Len(rret.p) = r.limit - rret.off
  /\ rret.err = EOF

\* ---- what a scenario's directory holds, told from the scenario alone

RECURSIVE ConcatFrags(_, _)
ConcatFrags(sizes, k) ==
  IF k = 0 THEN << >> ELSE ConcatFrags(sizes, k - 1) \o FragData(k, sizes[k])

\* the concatenation f1 || ... || fk of the fragments in a row
Concatenation == ConcatFrags(scfg.sizes, Len(scfg.sizes))

\* C2: over game_part1.wud, Size() is the sum of the fragment sizes and every
\* in-range ReadAt returns the bytes of the concatenation of the fragments at
\* the range asked, with no error, also across a fragment boundary.
C2_Concatenation ==
  (spc = "open" /\ scfg.name = FragName(1)) =>
    /\ SplitSize(sr) = Len(Concatenation)
    /\ (sret.op = "ReadAt" /\ sret.off + sret.n <= Len(Concatenation)) =>
         /\ sret.p = SubSeq(Concatenation, sret.off + 1, sret.off + sret.n)
         /\ sret.err = Nil

\* the path of fragment i, and the files a successful OpenReader holds
FragPath(i) == Join(TheDir, FragName(i))

Used ==
  IF scfg.name = FragName(1) THEN {FragPath(i) : i \in 1..Len(scfg.sizes)} ELSE {sname}

\* the fragments open when the failing call of the scenario fails
OpenedAtFault ==
  IF scfg.fault.op = "stat" THEN 1..scfg.fault.at ELSE 1..(scfg.fault.at - 1)

OriginalFailure ==
  [kind |-> IF scfg.fault.op = "stat" THEN "EIO" ELSE "EACCES",
   at |-> FragName(scfg.fault.at)]

Holds(err, e) == \E x \in DOMAIN err.errs : err.errs[x] = e

\* C8: when the stat of the first file, or the open or stat of a later
\* fragment, fails with an error other than does-not-exist, OpenReader returns
\* no reader, every fragment opened so far has been closed (once), and the
\* error returned holds the failure followed by every close error.
C8_OpenFailureClosesAll ==
  (sret.op = "OpenReader" /\ scfg.name = FragName(1) /\ scfg.fault.op # "none"
     /\ scfg.fault # [op |-> "open", at |-> 1]) =>
    /\ spc = "failed"
    /\ sr = NoSplitReader
    /\ \A path \in DOMAIN fs :
         closes[path] = IF path \in {FragPath(i) : i \in OpenedAtFault} THEN 1 ELSE 0
    /\ sret.err.kind = "multierror"
    /\ sret.err.errs[1] = OriginalFailure
    /\ \A i \in OpenedAtFault \cap scfg.closeFail :
         Holds(sret.err, CloseFailure(FragName(i)))
    /\ Len(sret.err.errs) = 1 + Cardinality(OpenedAtFault \cap scfg.closeFail)

\* the stat of the third fragment fails and so does every close
C8_Witness ==
  /\ sret.op = "OpenReader"
  /\ scfg.name = FragName(1)
  /\ scfg.fault = [op |-> "stat", at |-> 3]
  /\ scfg.closeFail = {1, 2, 3}
  /\ Len(sret.err.errs) = 4

\* C9: the split reader's Close closes every fragment it holds exactly once,
\* going on after a close that fails, and the error it returns holds every
\* close error.
C9_CloseEveryFragment ==
  sret.op = "Close" =>
    /\ \A path \in DOMAIN fs : closes[path] = IF path \in Used THEN 1 ELSE 0
    /\ \A path \in Used : fs[path].closeErr # NoErr => Holds(sret.err, fs[path].closeErr)

\* three fragments, the first close fails, the others are still made
C9_Witness ==
  /\ sret.op = "Close"
  /\ Len(sr.c) = 3
  /\ scfg.closeFail = {1}
  /\ closes[FragPath(3)] = 1
  /\ Len(sret.err.errs) = 1

IsOpenCall(e) == e.op = "open"

\* C10: OpenReader is multi-part iff the base name is game_part1.wud; it then
\* tries game_part2.wud, game_part3.wud, ... in order up to the first that
\* does not exist and holds exactly the run 1..k, never a fragment past a
\* gap; for another base name it opens the named file only.
C10_Multipart ==
  spc \in {"open", "closed"} =>
    IF scfg.name = FragName(1)
    THEN /\ sr.multi
         /\ sr.c = [i \in 1..Len(scfg.sizes) |-> FragPath(i)]
         /\ SelectSeq(oplog, IsOpenCall)
              = [i \in 1..(Len(scfg.sizes) + 1) |-> [op |-> "open", path |-> FragPath(i)]]
    ELSE /\ ~sr.multi
         /\ sr.c = <<sname>>
         /\ SelectSeq(oplog, IsOpenCall) = <<[op |-> "open", path |-> sname]>>

\* two fragments in a row and game_part4.wud past the gap
C10_Witness ==
  /\ spc = "open"
  /\ scfg.name = FragName(1)
  /\ scfg.gap
  /\ Len(scfg.sizes) = 2
  /\ FragPath(4) \in DOMAIN fs
  /\ Len(sr.c) = 2

\* the scenario with no byte changed
Unchanged == [dcfg EXCEPT !.flip = -1]

\* C11: newPartitionTable accepts a stream only if the digest of all its
\* bytes from offset 0x800 to its end, records and remainder in their order,
\* is the checksum of the header; and with any one byte in [0x800, 0x8000) of
\* an accepted sector changed it returns the checksum error and no table.
C11_Checksum ==
  dret.op = "newPartitionTable" =>
    /\ dret.err = Nil =>
         /\ Len(PTStream(dcfg).b) >= ptBodyOffset
         /\ Sha1(SubSeq(PTStream(dcfg).b, ptBodyOffset + 1, Len(PTStream(dcfg).b)))
              = PTStream(dcfg).sum
    /\ (dcfg.flip >= ptBodyOffset /\ dcfg.flip < SectorSize /\ dcfg.cut = SectorSize
          /\ NewPartitionTableOf(PTStream(Unchanged)).err = Nil) =>
         /\ dret.err = ErrBadChecksum
         /\ wud.pt = NoPT
         /\ dpc = "failed"

\* the last byte of the sector, past the three records, changed in a sector
\* that is accepted without the change
C11_Witness ==
  /\ dret.op = "newPartitionTable"
  /\ dcfg.flip = SectorSize - 1
  /\ Len(dcfg.tbl) = 3
  /\ dcfg.n = 3
  /\ NewPartitionTableOf(PTStream(Unchanged)).err = Nil
  /\ dret.err = ErrBadChecksum

\* C12: NewWUD returns an error and no WUD when r.Size() is not
\* UncompressedSize or a key is not 16 bytes long, and it has then made no
\* read of the image.
C12_RejectsBeforeReading ==
  (dret.op = "NewWUD"
     /\ (dcfg.size # UncompressedSize \/ Len(dcfg.commonKey) # keySize
           \/ Len(dcfg.gameKey) # keySize)) =>
    /\ dret.err \in {ErrWrongSize, ErrCommonKeySize, ErrGameKeySize}
    /\ dret.err = ErrWrongSize <=> dcfg.size # UncompressedSize
    /\ wud = NoWUD
    /\ dpc = "failed"
    /\ imgreads = << >>

\* an image of the right size and a common key of 16 bytes, a game key of 17
C12_Witness ==
  /\ dret.op = "NewWUD"
  /\ dcfg.size = UncompressedSize
  /\ Len(dcfg.commonKey) = keySize
  /\ Len(dcfg.gameKey) = keySize + 1
  /\ dret.err = ErrGameKeySize
  /\ imgreads = << >>

\* the file records of the scenario with a name, and the FileEntry NewWUD
\* builds for record e
Records(name) ==
  {i \in 1..Len(dcfg.entries) : dcfg.entries[i].type = 0 /\ dcfg.entries[i].name = name}

EntryOf(e) ==
  LET p == Mul32(BEBytes(e.off, 4), BEBytes(dcfg.factor, 4))
  IN  [iv |-> FileIV(p), offset |-> FileOffset(wud.pt[NameSI], p), size |-> e.size]

\* C13: after a successful NewWUD the file table holds only title.cert,
\* title.tik and title.tmd; title.cert is recorded if the FST has a file of
\* that name, its content never read; title.tik (title.tmd) is recorded iff a
\* file record of that name holds 0x50000 at offset 0x1dc (0x18c) of its
\* decrypted content, and the entry recorded is that of such a record: records
\* with another word are passed over and the parse goes on.
C13_Filter ==
  (dret.op = "NewWUD" /\ dret.err = Nil) =>
    /\ DOMAIN wud.files \subseteq {titleCert, titleTik, titleTmd}
    /\ titleCert \in DOMAIN wud.files <=> Records(titleCert) # {}
    /\ titleCert \in DOMAIN wud.files =>
         /\ \E i \in Records(titleCert) : wud.files[titleCert] = EntryOf(dcfg.entries[i])
         /\ \A k \in DOMAIN imgreads : imgreads[k].at # wud.files[titleCert].offset
    /\ \A name \in {titleTik, titleTmd} :
         /\ name \in DOMAIN wud.files <=>
              \E i \in Records(name) : dcfg.entries[i].word = tidWiiU
         /\ name \in DOMAIN wud.files =>
              \E i \in Records(name) :
                /\ dcfg.entries[i].word = tidWiiU
                /\ wud.files[name] = EntryOf(dcfg.entries[i])

\* title.tmd of another console ahead of the one recorded, a directory and a
\* file of another name passed over, title.cert recorded
C13_Witness ==
  /\ dret.op = "NewWUD"
  /\ dret.err = Nil
  /\ Len(dcfg.entries) = 7
  /\ dcfg.entries[2].name = titleTmd
  /\ dcfg.entries[2].word = OtherWord
  /\ wud.files[titleTmd] = EntryOf(dcfg.entries[3])
  /\ DOMAIN wud.files = {titleCert, titleTik, titleTmd}

\* the files of the output directory with a name
Created(name) == {k \in DOMAIN outdir : outdir[k].name = name}

\* C14: after a successful Extract every content i (0 included) has a file
\* <id>.app of length exactly contents[i].size.
C14_AppLengths ==
  (dret.op = "Extract" /\ dret.err = Nil) =>
    \A i \in DOMAIN dcfg.contents :
      /\ Created(AppName(dcfg.contents[i].id)) # {}
      /\ \A k \in Created(AppName(dcfg.contents[i].id)) :
           outdir[k].len = dcfg.contents[i].size

\* the offset, in the first sector of the GM partition, of the first hash, and
\* the number of bytes of hashes the flagged contents 1 .. i-1 own (contents
\* are counted from 0: content i is dcfg.contents[i + 1])
FirstHash == 16 + 4 + 44 + 4 * dcfg.hc

Flagged(i) == (dcfg.contents[i + 1].type \div 2) % 2 = 1

Hashes(i) == 20 * (dcfg.contents[i + 1].size \div 268435456 + 1)

RECURSIVE HashesBefore(_)
HashesBefore(i) ==
  IF i <= 1 THEN 0
  ELSE HashesBefore(i - 1) + (IF Flagged(i - 1) THEN Hashes(i - 1) ELSE 0)

\* C15: after a successful Extract every content i >= 1 with bit 0x2 in its
\* type has one file <id>.h3 of 20*(size div 0x10000000 + 1) bytes, which are
\* the bytes of the hash stream right after those of the flagged contents
\* before it; a content without the bit has no .h3 file; and an Extract that
\* found the hash stream short of a content's hashes returned io.EOF.
C15_H3 ==
  dret.op = "Extract" =>
    \A i \in 1..(Len(dcfg.contents) - 1) :
      LET made == Created(H3Name(dcfg.contents[i + 1].id))
      IN  /\ dret.err = Nil =>
               IF Flagged(i)
               THEN /\ Cardinality(made) = 1
                    /\ \A k \in made :
                         /\ outdir[k].len = Hashes(i)
                         /\ outdir[k].at = PosAdd(wud.pt[dret.name], FirstHash + HashesBefore(i))
                         /\ ~outdir[k].dec
               ELSE made = {}
          /\ ~Flagged(i) => made = {}
          /\ \A k \in made : outdir[k].len # Hashes(i) => dret.err = EOF

\* two flagged contents, of one hash and of two, behind a header of one entry
C15_Witness ==
  /\ dret.op = "Extract"
  /\ dret.err = Nil
  /\ dcfg.hc = 1
  /\ Len(dcfg.contents) = 3
  /\ Flagged(1) /\ Flagged(2)
  /\ \E k \in Created(H3Name(dcfg.contents[3].id)) :
       /\ outdir[k].len = 40
       /\ outdir[k].at = PosAdd(wud.pt[dret.name], 68 + 20)

\* 12 bytes of hashes left in the sector for a content that owns 20
C15_WitnessShort ==
  /\ dret.op = "Extract"
  /\ dret.err = EOF
  /\ \E k \in DOMAIN outdir : outdir[k].name = H3Name(dcfg.contents[2].id) /\ outdir[k].len = 12

\* the names of the files created, in the order of their creation
Names == [k \in DOMAIN outdir |-> outdir[k].name]

IsPrefix(a, b) == Len(a) <= Len(b) /\ a = SubSeq(b, 1, Len(a))

\* the files of the contents i .. n-1, each .app followed by its .h3
RECURSIVE LaterFiles(_)
LaterFiles(i) ==
  IF i >= Len(dcfg.contents) THEN << >>
  ELSE <<AppName(dcfg.contents[i + 1].id)>>
         \o (IF Flagged(i) THEN <<H3Name(dcfg.contents[i + 1].id)>> ELSE << >>)
         \o LaterFiles(i + 1)

BeforeCert ==
  <<titleTmd, titleTik>>
    \o (IF dcfg.contents = << >> THEN << >> ELSE <<AppName(dcfg.contents[1].id)>>)
    \o LaterFiles(1)

\* the errors of a read or of a file creation on the way
StepErrors == {EOF, ErrUnexpectedEOF, ErrCreate, ErrNoPartition, "panic"}

\* C16: the files Extract has created are, in order, a prefix of title.tmd,
\* title.tik, the .app of content 0, for i = 1..n-1 the .app of content i and
\* its .h3 when flagged, title.cert; a successful Extract has created all of
\* them; and when one of the three title files is not in the file table
\* Extract fails, creates no file from that step on, and the failure is the
\* not-found error unless an earlier step failed.
C16_Order ==
  dret.op = "Extract" =>
    /\ IsPrefix(Names, BeforeCert \o <<titleCert>>)
    /\ dret.err = Nil => Names = BeforeCert \o <<titleCert>>
    /\ titleTmd \notin DOMAIN wud.files => dret.err = ErrNotFound /\ Names = << >>
    /\ (titleTmd \in DOMAIN wud.files /\ titleTik \notin DOMAIN wud.files) =>
         /\ dret.err # Nil
         /\ IsPrefix(Names, <<titleTmd>>)
         /\ dret.err \notin StepErrors => dret.err = ErrNotFound /\ Names = <<titleTmd>>
    /\ ({titleTmd, titleTik} \subseteq DOMAIN wud.files /\ titleCert \notin DOMAIN wud.files) =>
         /\ dret.err # Nil
         /\ IsPrefix(Names, BeforeCert)
         /\ dret.err \notin StepErrors => dret.err = ErrNotFound /\ Names = BeforeCert

\* three contents, the second without hashes, the third with
C16_Witness ==
  /\ dret.op = "Extract"
  /\ dret.err = Nil
  /\ Len(dcfg.contents) = 3
  /\ ~Flagged(1) /\ Flagged(2)
  /\ Len(outdir) = 7
  /\ Names = BeforeCert \o <<titleCert>>

\* title.cert missing from the file table: everything else created first
C16_WitnessNoCert ==
  /\ dret.op = "Extract"
  /\ dret.err = ErrNotFound
  /\ titleCert \notin DOMAIN wud.files
  /\ Names = BeforeCert

\* title.tik missing from the file table
C16_WitnessNoTik ==
  /\ dret.op = "Extract"
  /\ dret.err = ErrNotFound
  /\ titleTik \notin DOMAIN wud.files
  /\ Names = <<titleTmd>>

\* the records of the scenario's table that newPartitionTable reads and whose
\* name starts with the prefix, by their place in the table
Hits(prefix) ==
  {i \in 1..Min(dcfg.n, Len(dcfg.tbl)) : HasPrefix(dcfg.tbl[i].name, prefix)}

\* C17: findPartition returns the first record, in the order of the table on
\* the disc, whose name starts with the prefix, and the not-found error iff
\* there is none.
C17_FirstInTableOrder ==
  dret.op = "findPartition" =>
    IF Hits(dret.prefix) = {}
    THEN dret.err = ErrNoPartition
    ELSE LET first == CHOOSE i \in Hits(dret.prefix) : \A j \in Hits(dret.prefix) : i <= j
         IN  /\ dret.err = Nil
             /\ dret.name = dcfg.tbl[first].name
             /\ dret.off = Pos(dcfg.tbl[first].off, 0)

\* sector i (from 0) of the input stream, the sectors that are the first of
\* their content, and the number of those before sector i
InSector(i) == Input(i * cfg.sectorSize, cfg.sectorSize)

FirstSeen ==
  {i \in 0..(TableSize(cfg.uncompressedSize, cfg.sectorSize) - 1) :
     \A j \in 0..(i - 1) : InSector(j) # InSector(i)}

Rank(i) == Cardinality({j \in FirstSeen : j < i})

\* 32 + 4*ceil(uncompressedSize/sectorSize), rounded up to a multiple of the
\* sector size
PayloadBase ==
  ((32 + 4 * TableSize(cfg.uncompressedSize, cfg.sectorSize) + cfg.sectorSize - 1)
     \div cfg.sectorSize) * cfg.sectorSize

\* C18: after a successful Close the file is PayloadBase + U*sectorSize bytes
\* long, U the number of distinct sectors of the input, and the k-th of them
\* in first-seen order is at [PayloadBase + k*sectorSize,
\* PayloadBase + (k+1)*sectorSize).
C18_Layout ==
  (wpc = "closed" /\ wret.op = "Close" /\ wret.err = Nil) =>
    /\ Len(sink.data) = PayloadBase + Cardinality(FirstSeen) * cfg.sectorSize
    /\ \A i \in FirstSeen :
         SubSeq(sink.data, PayloadBase + Rank(i) * cfg.sectorSize + 1,
                PayloadBase + (Rank(i) + 1) * cfg.sectorSize) = InSector(i)

\* the table positions (from 1) recorded so far that hold the value v
Positions(v) == {i \in 1..w.sector : w.table[i] = v}

FirstPosition(v) == CHOOSE i \in Positions(v) : \A j \in Positions(v) : i <= j

\* C19: at every point of the writing each table entry recorded so far is
\* smaller than the number of unique sectors seen so far, every value below
\* that number is recorded, and the first occurrences of 0, 1, 2, ... are at
\* increasing positions.
C19_Density ==
  wpc \in {"open", "closed", "fault"} =>
    /\ w.sector <= Len(w.table)
    /\ \A i \in 1..w.sector : w.table[i] < w.unique
    /\ \A v \in 0..(w.unique - 1) : Positions(v) # {}
    /\ \A v \in 1..(w.unique - 1) :
         (Positions(v - 1) # {} /\ Positions(v) # {}) =>
           FirstPosition(v - 1) < FirstPosition(v)

\* the sectors consumed so far that are the first of their content
NewSectors == {i \in FirstSeen : i < w.sector}

\* C20: whatever the lengths of the Write calls, as long as the sink takes
\* what it is given: two consumed sectors have the same table entry iff they
\* have the same content; a sector that is the first of its content has the
\* next unused index, and its sectorSize bytes are the next write to the
\* sink, right behind the one before; the other sectors write nothing.
C20_Dedup ==
  (wpc \in {"open", "closed", "fault"} /\ w.err = Nil) =>
    /\ \A i \in 0..(w.sector - 1) :
         \A j \in 0..(i - 1) :
           w.table[i + 1] = w.table[j + 1] <=> InSector(i) = InSector(j)
    /\ \A i \in NewSectors : w.table[i + 1] = Rank(i)
    /\ Len(sink.log) >= 3 + Cardinality(NewSectors)
    /\ wpc # "closed" => Len(sink.log) = 3 + Cardinality(NewSectors)
    /\ \A i \in NewSectors :
         /\ sink.log[4 + Rank(i)] =
              [op |-> "write", at |-> sink.log[3].at + Rank(i) * cfg.sectorSize,
               n |-> cfg.sectorSize]
         /\ SubSeq(sink.data, sink.log[3].at + Rank(i) * cfg.sectorSize + 1,
                   sink.log[3].at + (Rank(i) + 1) * cfg.sectorSize) = InSector(i)

\* two equal sectors fed in chunks of 1, sectorSize-1 and sectorSize+1 bytes:
\* one payload written, the second sector dropped
C20_Witness ==
  /\ wpc = "open"
  /\ w.err = Nil
  /\ nwrites = 3
  /\ Len(w.b) = 1
  /\ w.sector = 2
  /\ w.table = <<0, 0>>
  /\ Len(sink.log) = 4

\* two different sectors fed in one Write
C20_WitnessTwo ==
  /\ wpc = "open"
  /\ nwrites = 1
  /\ w.sector = 2
  /\ w.table = <<0, 1>>
  /\ Len(sink.log) = 5

\* the operations on the sink after the three of NewWriter
Later == {k \in DOMAIN sink.log : k > 3}

\* C21: the sink sees, in order, a seek to 0, the header written at 0, a seek
\* to the sector-data base, then the payloads of the sectors that are the
\* first of their content, in the order of their first occurrence, one behind
\* the other; a seek after that is the seek to headerSize of a Close that
\* found no latched error, an empty buffer and the whole declared size
\* written, it comes behind all the payloads and is followed by the write of
\* the table and by nothing else; a Close that returned nil wrote the whole
\* table, a Close that rejected the total wrote nothing.
C21_SinkOrder ==
  wpc \in {"open", "closed", "fault", "failed"} =>
    /\ Len(sink.log) >= 1 => sink.log[1] = [op |-> "seek", at |-> 0, n |-> 0]
    /\ Len(sink.log) >= 2 => sink.log[2] = [op |-> "write", at |-> 0, n |-> 32]
    /\ Len(sink.log) >= 3 =>
         sink.log[3] = [op |-> "seek", n |-> 0,
                        at |-> SectorBase(TableSize(cfg.uncompressedSize, cfg.sectorSize),
                                          cfg.sectorSize)]
    /\ wpc \in {"open", "fault"} => Len(sink.log) >= 3
    /\ \A k \in Later :
         IF sink.log[k].op = "write" /\ (k = 4 \/ sink.log[k - 1].op = "write")
         THEN \* the payload of the (k-4)-th new sector
              /\ sink.log[k].at = sink.log[3].at + (k - 4) * cfg.sectorSize
              /\ \E i \in FirstSeen :
                   /\ Rank(i) = k - 4
                   /\ i < w.sector
                   /\ SubSeq(sink.data, sink.log[k].at + 1, sink.log[k].at + sink.log[k].n)
                        = SubSeq(InSector(i), 1, sink.log[k].n)
                   /\ sink.log[k].n # cfg.sectorSize => w.err # Nil /\ k = Len(sink.log)
         ELSE \* the table
              /\ wpc = "closed"
              /\ wret.op = "Close"
              /\ wret.err # ErrNotEnough
              /\ w.err = Nil /\ Len(w.b) = 0 /\ w.off = w.limit
              /\ w.sector = Len(w.table)
              /\ Len(sink.log) = 3 + w.unique + 2
              /\ k >= Len(sink.log) - 1
              /\ sink.log[Len(sink.log) - 1] = [op |-> "seek", at |-> 32, n |-> 0]
              /\ sink.log[Len(sink.log)].op = "write"
              /\ sink.log[Len(sink.log)].at = 32
    /\ (wret.op = "Close" /\ wret.err = Nil) =>
         /\ Len(sink.log) = 3 + w.unique + 2
         /\ sink.log[Len(sink.log)] = [op |-> "write", at |-> 32, n |-> 4 * Len(w.table)]
    /\ (wret.op = "Close" /\ wret.err = ErrNotEnough) =>
         \A k \in Later : sink.log[k].op = "write"

\* two different sectors written, then the table
C21_Witness ==
  /\ wpc = "closed"
  /\ wret.op = "Close"
  /\ wret.err = Nil
  /\ w.unique = 2
  /\ Len(sink.log) = 7
  /\ sink.log[6].op = "seek"
  /\ sink.log[7].n = 8

\* C22: the sector-data base the writer seeks to, and the one the reader
\* computes from the header of the file, is the smallest multiple of
\* sectorSize that is >= 32 + 4*ceil(uncompressedSize/sectorSize).
C22_Base ==
  /\ wpc \in {"open", "closed", "fault"} =>
       /\ sink.log[3].at % cfg.sectorSize = 0
       /\ sink.log[3].at >= 32 + 4 * TableSize(cfg.uncompressedSize, cfg.sectorSize)
       /\ sink.log[3].at - cfg.sectorSize < 32 + 4 * TableSize(cfg.uncompressedSize, cfg.sectorSize)
  /\ (rpc = "open" /\ cfg # << >>) =>
       /\ r.base % r.sectorSize = 0
       /\ r.base >= 32 + 4 * Len(r.table)
       /\ r.base - r.sectorSize < 32 + 4 * Len(r.table)

\* the offset in the file of byte x of the image: base + table[x div
\* sectorSize]*sectorSize + x mod sectorSize
Physical(x) ==
  r.base + r.table[(x \div r.sectorSize) + 1] * r.sectorSize + (x % r.sectorSize)

\* C23: a ReadAt(p, off) with 0 <= off and off + len(p) <= Size() indexes the
\* table inside [0, tableSize) only, and p[j] is the byte of the file at
\* Physical(off + j), for every j of the request up to the first one whose
\* byte the file does not hold (a prefix of a request is never longer than
\* the file when a sector is); with all bytes held the call returns len(p)
\* bytes.
C23_Physical ==
  (rret.op = "ReadAt" /\ rret.off >= 0 /\ rret.off + rret.n <= r.limit) =>
    /\ rpc # "fault"
    /\ rret.err # "panic"
    /\ \A j \in 0..(Min(rret.n, Len(sink.data)) - 1) :
         /\ (rret.off + j) \div r.sectorSize < Len(r.table)
         /\ (\A i \in 0..j : Physical(rret.off + i) < Len(sink.data)) =>
              /\ Len(rret.p) > j
              /\ rret.p[j + 1] = sink.data[Physical(rret.off + j) + 1]
    /\ (/\ rret.n > 0
        /\ rret.n <= Len(sink.data)
        /\ \A j \in 0..(rret.n - 1) : Physical(rret.off + j) < Len(sink.data)) =>
         Len(rret.p) = rret.n /\ rret.err = Nil

\* two bytes across the boundary of the first sector, stored as the third
\* payload, and the second, stored as the first
C23_Witness ==
  /\ rret.op = "ReadAt"
  /\ rret.off = r.sectorSize - 1
  /\ rret.n = 2
  /\ r.table = <<2, 0>>
  /\ rret.err = Nil
  /\ rret.p = <<sink.data[r.base + 3 * r.sectorSize], sink.data[r.base + 1]>>

\* entry.offset*fileOffsetFactor as an integer, in two parts: the multiples
\* of 0x10000 bytes and the rest (the scenarios keep the rest below 2^31)
ProductHi(e) == e.off * (dcfg.factor \div 65536)

ProductLo(e) == e.off * (dcfg.factor % 65536)

\* C24: the FileEntry recorded for a name is built from a file record of that
\* name with offset = si + 2*SECTOR_SIZE + entry.offset*fileOffsetFactor, the
\* product taken as an integer, size = entry.size, and an IV of eight zero
\* bytes followed by (entry.offset*fileOffsetFactor) >> 16 as a big-endian
\* u64.
C24_FileEntry ==
  (dret.op = "NewWUD" /\ dret.err = Nil) =>
    \A name \in DOMAIN wud.files :
      \E i \in Records(name) :
        LET e == dcfg.entries[i]
        IN  /\ wud.files[name].offset =
                 PosAdd(Pos(wud.pt[NameSI].s + 2 + 2 * ProductHi(e), wud.pt[NameSI].o),
                        ProductLo(e))
            /\ wud.files[name].size = e.size
            /\ wud.files[name].iv =
                 Zeros(8) \o BEBytes(ProductHi(e) + ProductLo(e) \div 65536, 8)

\* the records of a name that NewWUD accepts: any record of title.cert, the
\* records of title.tik and title.tmd whose content holds 0x50000
Accepted(name) ==
  {i \in Records(name) : name = titleCert \/ dcfg.entries[i].word = tidWiiU}

Earliest(S) == CHOOSE i \in S : \A j \in S : i <= j

\* the records of title.tik and title.tmd up to the one accepted, all of them
\* when none is
ReadRecords(name) ==
  {i \in Records(name) : Accepted(name) = {} \/ i <= Earliest(Accepted(name))}

\* C25 as stated: the entry of a name in the file table comes from the
\* earliest file record that carries the name.
C25_EarliestRecord ==
  (dret.op = "NewWUD" /\ dret.err = Nil) =>
    \A name \in DOMAIN wud.files :
      wud.files[name] = EntryOf(dcfg.entries[Earliest(Records(name))])

\* C25, amended: the entry of a name comes from the earliest record of that
\* name that was accepted (for title.tik and title.tmd, the earliest whose
\* content holds 0x50000 at the title-ID offset); the records of the name
\* behind it are skipped without a read of the image.
C25_EarliestAccepted ==
  (dret.op = "NewWUD" /\ dret.err = Nil) =>
    /\ \A name \in DOMAIN wud.files :
         /\ Accepted(name) # {}
         /\ wud.files[name] = EntryOf(dcfg.entries[Earliest(Accepted(name))])
    /\ Len(imgreads) = 3 + Cardinality(ReadRecords(titleTik))
                         + Cardinality(ReadRecords(titleTmd))
    /\ \A k \in 4..Len(imgreads) :
         \E name \in {titleTik, titleTmd} : \E i \in ReadRecords(name) :
           imgreads[k].at = EntryOf(dcfg.entries[i]).offset

\* title.tmd of another console ahead of the one recorded, and title.cert
\* twice: the first title.cert is the one recorded
C25_Witness ==
  /\ dret.op = "NewWUD"
  /\ dret.err = Nil
  /\ Cardinality(Records(titleCert)) = 2
  /\ Cardinality(Records(titleTmd)) = 2
  /\ wud.files[titleCert] = EntryOf(dcfg.entries[6])
  /\ wud.files[titleCert] # EntryOf(dcfg.entries[7])
  /\ wud.files[titleTmd] = EntryOf(dcfg.entries[3])

\* C26: Close of the split reader returns nil when the Close of every
\* fragment succeeded, and an error only when the Close of some fragment
\* failed.
C26_CloseNil ==
  sret.op = "Close" =>
    (sret.err = NoErr <=> \A i \in DOMAIN sr.c : fs[sr.c[i]].closeErr = NoErr)

\* C27: over game_part1.wud, a sequential Read with a non-empty buffer returns
\* the image bytes that follow the offset it started at, advances the offset
\* by the number of bytes returned, returns at least one byte while bytes
\* remain, reports io.EOF only when all Size() bytes have been delivered, and
\* at the end of the image returns 0 bytes and io.EOF.
C27_SequentialRead ==
  (spc = "open" /\ scfg.name = FragName(1) /\ sret.op = "Read" /\ sret.n > 0) =>
    LET size == SplitSize(sr)
        new  == sret.off + Len(sret.p)
    IN  /\ sr.off = new
        /\ new <= size
        /\ sret.p = SubSeq(Concatenation, sret.off + 1, new)
        /\ sret.err \in {Nil, EOF}
        /\ (sret.off < size => Len(sret.p) > 0)
        /\ (sret.err = EOF => new = size)
        /\ (sret.off = size => (Len(sret.p) = 0 /\ sret.err = EOF))

\* the target a Seek call computes from its arguments and the state before it
SeekTarget(rd, offset, whence) ==
  offset + (IF whence = SeekCurrent THEN rd.off
            ELSE IF whence = SeekEnd THEN SplitSize(rd) ELSE 0)

\* C28: for the split reader the sequential offset stays within 0..Size()
\* whatever Seek, Read and ReadAt calls are made; a Seek with an invalid whence
\* or a target outside 0..Size() returns an error and leaves the offset as it
\* was, a successful Seek sets the offset to the target and returns it, and
\* ReadAt leaves the offset as it was.
C28_Offset ==
  [][/\ spc' = "open" => (0 <= sr'.off /\ sr'.off <= SplitSize(sr'))
     /\ (spc = "open" /\ sret'.op = "Seek") =>
          LET target == SeekTarget(sr, sret'.arg, sret'.whence)
          IN  IF \/ sret'.whence \notin {SeekStart, SeekCurrent, SeekEnd}
                 \/ target < 0
                 \/ target > SplitSize(sr)
              THEN sret'.err # Nil /\ sr'.off = sr.off
              ELSE sret'.err = Nil /\ sr'.off = target /\ sret'.n = target
     /\ (spc = "open" /\ sret'.op = "ReadAt") => sr'.off = sr.off]_vars

\* a Seek from the end of a multipart image has moved the offset, after a Read
C28_Witness ==
  /\ spc = "open"
  /\ sr.multi
  /\ sret.op = "Seek"
  /\ sret.err = Nil
  /\ sret.whence = SeekEnd
  /\ sret.arg = -1
  /\ sret.off > 0
  /\ sr.off = SplitSize(sr) - 1
  /\ sr.off # sret.off

\* C29: Extract never indexes the content records at a position that is not
\* below contentCount: whatever the count, 0 included, it ends by returning
\* nil or an error value and does not fault on contents[0].
C29_NoFault ==
  dret.op = "Extract" => (dpc # "fault" /\ dret.err # "panic")

====
